---- MODULE Spec2Model ----
(***************************************************************************)
(* StackSwap backend: the offramp settlement engine of                     *)
(* controllers/offrampController.js over the Transaction collection of     *)
(* models/Transaction.js.                                                  *)
(*                                                                         *)
(* Every handler is an async function; it is cut into one action per       *)
(* stretch of code between two awaits that touch the store or the payout   *)
(* provider, so that handlers interleave exactly where Node.js lets them.  *)
(* A handler works on its own in-memory Mongoose document (doc): findOne   *)
(* copies the stored record, assignments change the copy and mark the path *)
(* modified, save() validates the copy against the schema and writes the   *)
(* modified paths to the store by _id, whatever the store holds by then.   *)
(*                                                                         *)
(* Spec is the settlement engine; LiveSpec is Spec with weak fairness on   *)
(* the continuations of handlers that have started. The other              *)
(* specifications share its variables and leave the engine idle:           *)
(* CheckSpec sweeps the status check of each handler over every documented *)
(* status, OrderSpec follows POST /initialize in detail (quote, reference, *)
(* insert), RequestSpec sweeps the tests of POST /initialize over bodies   *)
(* and environments, LiquiditySpec is the balance cache beside payouts,    *)
(* ReceiptSpec sweeps the amounts of one confirm-receipt, IndexerSpec is   *)
(* the scan of services/stacksIndexer.js, MemoSpec sweeps its reading of   *)
(* a memo over raw texts, SameTxSpec is the engine with one chain tx id    *)
(* notified for several records, OnrampSpec is handleMonnifyWebhook of     *)
(* controllers/onrampController.js under repeated deliveries, and          *)
(* PriceSpec is the price cache of services/priceService.js with its       *)
(* callers.                                                                *)
(***************************************************************************)
EXTENDS Integers, FiniteSets, Sequences, Bags, TLC

\* ------------------------------------------------------------------ bounds
\* payment references initializeOfframp can hand out
MaxRefs == 1
\* chain transaction ids the environment knows
MaxTxIds == 2
\* concurrent POST /confirm-receipt requests
NumConfirm == 2
\* concurrent POST /notify-tx requests, each with the watcher it spawns
NumWatchers == 2
\* concurrent POST /lenco-webhook requests
NumWebhooks == 2
\* polling iterations of a watcher (MAX_ATTEMPTS is 120 in the source)
MaxAttempts == 1
\* InitiateTransfer requests the provider accepts per reference in a run
MaxCalls == 3
\* milliseconds the wall clock advances in a run
MaxClock == 1
\* HTTP requests (confirm-receipt, notify-tx, webhook) received in a run
MaxRequests == 3
\* POST /initialize requests followed in detail in a run
MaxOrders == 2
\* values crypto.randomBytes(4) can return (2^32 in the source)
MaxRand == 2
\* getCurrentPrices callers that can wait for one fetch
NumCallers == 2
\* POST /api/prices/refresh requests that can execute at the same time
NumForce == 1
\* upstream failures in a row
MaxFailures == 2
\* steps of the clock in a run of the price service
MaxTicks == 1
\* balance requests that can be under way at once
NumBalanceCalls == 2
\* payouts initiated
MaxPayouts == 1
\* steps the clock makes beside the balance cache
MaxSteps == 2
\* deposits with an offramp memo in the window the chain API returns
MaxDeposits == 2
\* scans of the indexer that can overlap
NumScans == 2
\* polls one scan slot runs
MaxPolls == 2
\* concurrent Monnify webhook requests
NumMonnify == 2
\* Monnify webhook deliveries
MaxDeliveries == 3
\* token amounts are counted in 1/AmountScale of a token
AmountScale == 2
\* prices are counted in 1/RateScale of a naira
RateScale == 2

Refs == 1..MaxRefs
TxIds == 1..MaxTxIds
ConfirmProcs == 1..NumConfirm
Watchers == 1..NumWatchers
WebhookProcs == 1..NumWebhooks

\* ------------------------------------------------------------------ schema
\* txId / lencoTransferId / confirmedAt that are not set
Unset == 0

\* transactionSchema.status.enum
StatusEnum == {"pending", "processing", "confirmed", "failed"}

\* the meta object initializeOfframp stores (the fields the engine later touches)
InitialMeta ==
    [ lencoTransferId          |-> Unset,
      failureReason            |-> "none",
      requiresManualSettlement |-> FALSE,
      lencoStatus              |-> "none" ]

\* the record Transaction.create persists in initializeOfframp
NewRecord ==
    [ status      |-> "pending",
      txId        |-> Unset,
      confirmedAt |-> Unset,
      meta        |-> InitialMeta ]

\* a handler's document before findOne returned one
NoDoc == [ status |-> "none", txId |-> Unset, confirmedAt |-> Unset,
           meta |-> InitialMeta, dirty |-> {} ]

VARIABLES
    db,        \* the Transaction collection: paymentReference -> stored record
    calls,     \* provider: InitiateTransfer requests received per reference
    succ,      \* provider: InitiateTransfer requests answered with success
    chain,     \* Stacks API: tx_status of each chain transaction
    now,       \* wall clock (Date.now())
    cr,        \* confirm-receipt requests: handler position and locals
    wt,        \* notify-tx requests and their watchers: position and locals
    wh,        \* webhook requests: handler position and locals
    reqs,      \* HTTP requests received so far
    chk,       \* one status check of a handler: its input and its verdict
    txs,       \* the offramp records POST /initialize created, as a bag
    ord,       \* the last POST /initialize: its inputs and its response
    cache,               \* priceService: { STX, USDC, lastFetched }
    backoffUntil,        \* priceService
    consecutiveFailures, \* priceService
    inFlightFetch,       \* priceService: whether the shared promise is set
    flights,   \* upstream requests awaiting their answer, by who started them
    waiting,   \* getCurrentPrices callers awaiting inFlightFetch
    last,      \* the last answer a caller of the price service got
    windowEnd, \* the end of the backoff delay computed at the last 429
    fetchLog,  \* how the upstream fetches ended, since the last that succeeded
    nextTick,  \* when the refresh interval fires next
    ticks,     \* steps the clock has made
    ini,       \* one POST /initialize taken alone: request, environment, response
    lencoBalanceCache,    \* offrampController: the cached balance, or null
    lencoBalanceCachedAt, \* offrampController: when it was cached, or null
    lencoAccount, \* the balance of the platform account at the provider, kobo
    accepted,  \* transfers the provider has accepted and debited
    returned,  \* calls of initiateLencoTransfer that have returned a result
    bal,       \* calls of getLencoAccountBalance: position and locals
    xfer,      \* the call of initiateLencoTransfer under way
    lastCheck, \* the verdict of the last checkLiquidity and what it rested on
    steps,     \* steps the clock has made beside the balance cache
    LENCO_WEBHOOK_SECRET, \* offrampController: the secret of the environment, or ""
    rcpt,      \* one confirm-receipt taken alone: record, request, what it did
    processedTxIds, \* stacksIndexer: the tx ids it takes for handled
    idx,       \* stacksIndexer: the position of the scan and its locals
    persisted, \* the references POST /initialize has stored a record for
    answers,   \* the answer to the last confirm-receipt of the indexer, by tx id
    keyAccepted, \* whether the server takes the indexer's x-internal-key
    mm,        \* one chain tx before the memo test of the indexer: input, outcome
    onr,       \* the onramp record of one payment reference
    mw,        \* Monnify webhook requests: handler position and locals
    sends      \* calls of stacksTransferService.sendTokens for the record

\* the state of the settlement engine, but for the clock
engineVars == <<db, calls, succ, chain, cr, wt, wh, reqs>>

\* the state outside the settlement engine
checkVars == <<chk>>
orderVars == <<txs, ord>>
priceVars == <<cache, backoffUntil, consecutiveFailures, inFlightFetch,
               flights, waiting, last, windowEnd, fetchLog, nextTick, ticks>>
requestVars == <<ini>>
liquidityVars == <<lencoBalanceCache, lencoBalanceCachedAt, lencoAccount,
                   accepted, returned, bal, xfer, lastCheck, steps>>
configVars == <<LENCO_WEBHOOK_SECRET>>
receiptVars == <<rcpt>>
indexerVars == <<processedTxIds, idx, persisted, answers, keyAccepted>>
memoVars == <<mm>>
onrampVars == <<onr, mw, sends>>
lateVars == <<memoVars, onrampVars>>
extraVars == <<requestVars, liquidityVars, configVars, receiptVars, indexerVars,
              lateVars>>
otherVars == <<checkVars, orderVars, priceVars, extraVars>>

vars == <<db, calls, succ, chain, now, cr, wt, wh, reqs, otherVars>>

\* ------------------------------------------------------- Mongoose documents
\* Transaction.findOne({ paymentReference }): a document holding a copy of the record
Load(r) ==
    [ status      |-> db[r].status,
      txId        |-> db[r].txId,
      confirmedAt |-> db[r].confirmedAt,
      meta        |-> db[r].meta,
      dirty       |-> {} ]

\* doc.status = s : the path is marked modified only when the value changes
SetStatus(doc, s) ==
    IF doc.status = s THEN doc
    ELSE [doc EXCEPT !.status = s, !.dirty = @ \cup {"status"}]

\* doc.txId = t
SetTxId(doc, t) ==
    IF doc.txId = t THEN doc
    ELSE [doc EXCEPT !.txId = t, !.dirty = @ \cup {"txId"}]

\* doc.confirmedAt = new Date()
SetConfirmedAt(doc, t) ==
    IF doc.confirmedAt = t THEN doc
    ELSE [doc EXCEPT !.confirmedAt = t, !.dirty = @ \cup {"confirmedAt"}]

\* doc.meta = { ...doc.meta, ... } : a Mixed path given a new object, which in
\* every use carries a fresh ISO timestamp, so it never equals the old one
SetMeta(doc, m) ==
    [doc EXCEPT !.meta = m, !.dirty = @ \cup {"meta"}]

\* save() runs the schema validators of the modified paths first
Valid(doc) ==
    "status" \in doc.dirty => doc.status \in StatusEnum

\* what a successful save() leaves in the store: the modified paths of the
\* document over whatever the record holds now (updateOne by _id, $set)
Persist(rec, doc) ==
    [ status      |-> IF "status" \in doc.dirty THEN doc.status ELSE rec.status,
      txId        |-> IF "txId" \in doc.dirty THEN doc.txId ELSE rec.txId,
      confirmedAt |-> IF "confirmedAt" \in doc.dirty THEN doc.confirmedAt
                      ELSE rec.confirmedAt,
      meta        |-> IF "meta" \in doc.dirty THEN doc.meta ELSE rec.meta ]

\* the document after a successful save(): nothing is modified any more
Saved(doc) == [doc EXCEPT !.dirty = {}]

\* ------------------------------------------------------------------- Init
\* no answer from the provider (yet)
NoResult == [ ok |-> FALSE, transferId |-> Unset, message |-> "none" ]

IdleConfirm == [ pc |-> "idle", ref |-> 1, txId |-> 1, doc |-> NoDoc,
                 res |-> NoResult, resp |-> "none", after |-> FALSE ]

IdleWatcher == [ pc |-> "idle", ref |-> 1, txId |-> 1, doc |-> NoDoc,
                 res |-> NoResult, attempt |-> 0, resp |-> "none" ]

IdleWebhook == [ pc |-> "idle", ref |-> 1, event |-> "none", doc |-> NoDoc,
                 authentic |-> FALSE,
                 resp |-> "none" ]

\* no status check made
NoCheck == [ handler |-> "none", st |-> "absent", event |-> "none",
             out |-> "none" ]

\* the settlement engine after start-up: an empty collection, no request
EngineInit ==
    /\ db = <<>>
    /\ calls = [r \in Refs |-> 0]
    /\ succ = [r \in Refs |-> 0]
    /\ chain = [t \in TxIds |-> "pending"]
    /\ cr = [p \in ConfirmProcs |-> IdleConfirm]
    /\ wt = [w \in Watchers |-> IdleWatcher]
    /\ wh = [h \in WebhookProcs |-> IdleWebhook]
    /\ reqs = 0

\* no POST /initialize received
NoOrder == [ n |-> 0, amount |-> 0, rate |-> 0, resp |-> "none" ]

OrderIdle ==
    /\ txs = EmptyBag
    /\ ord = NoOrder

\* ---- priceService.js: configuration, in units of 2000 ms, cents and kobo
CACHE_TTL_MS == 30
STALE_TTL_MS == 150
BASE_BACKOFF_MS == 1
\* the cap of the backoff delay (300_000 ms)
MAX_BACKOFF_MS == 150
\* how long cached emergency rates count as fresh (30_000 ms)
EMERGENCY_FRESH_MS == 15
\* the timeout of the upstream GET (10000 ms)
FETCH_TIMEOUT_MS == 5
\* kobo per dollar, cents
EMERGENCY_USD_NGN == 162000
EMERGENCY_STX_USD == 114
EMERGENCY_USDC_USD == 100

\* null, for a token of the cache and for lastFetched
NoPrice == [ priceUSD |-> 0, priceNGN |-> 0, usdToNgn |-> 0, fetchedAt |-> 0 ]
Never == 0

\* who calls refreshPrices
Owners == {"getCurrentPrices", "tick", "forceRefresh"}

NoAnswer == [ by |-> "none", STX |-> NoPrice, USDC |-> NoPrice,
              fromCache |-> FALSE ]

\* no fetch has ended: none succeeded, none failed, none was answered 429;
\* status is 200 or 429 when the last fetch to end ended so, else 0
NoFetches == [ succeeded |-> FALSE, failed |-> 0, limited |-> 0, status |-> 0 ]

\* the module state of priceService.js when it is loaded, at instant t
PriceIdle(t) ==
    /\ cache = [ STX |-> NoPrice, USDC |-> NoPrice, lastFetched |-> Never ]
    /\ backoffUntil = 0
    /\ consecutiveFailures = 0
    /\ inFlightFetch = FALSE
    /\ flights = [o \in Owners |-> 0]
    /\ waiting = 0
    /\ last = NoAnswer
    /\ windowEnd = 0
    /\ fetchLog = NoFetches
    /\ nextTick = t + CACHE_TTL_MS
    /\ ticks = 0

\* null, for an amount of naira
NoAmount == -1

\* no response sent
NoResponse == [ status |-> "none", code |-> "none", maxOrderNGN |-> NoAmount,
                created |-> FALSE ]

\* no POST /initialize under study
NoRequest ==
    [ token |-> "", tokenAmount |-> 0,
      stacksAddress |-> [ prefix |-> "", body |-> "upper", len |-> 0 ],
      accountNumber |-> [ len |-> 0, digits |-> TRUE ] ]

NoEnv == [ bankOk |-> FALSE, deposit |-> FALSE, rate |-> 0,
           balance |-> [ known |-> FALSE, kobo |-> 0 ] ]

RequestIdle ==
    ini = [ req |-> NoRequest, env |-> NoEnv, done |-> FALSE,
            resp |-> NoResponse ]

\* safety cushion of the platform account, naira
LENCO_MIN_BALANCE_NGN == 5000
KoboPerNaira == 100
\* the life of a cached balance, in units of 1000 ms
BALANCE_CACHE_TTL_MS == 30

\* null, for the cached balance; seen counts the transfers the provider had
\* debited when it reported the balance
NoBalance == [ known |-> FALSE, kobo |-> 0 ]
NoCached == [ balance |-> NoBalance, seen |-> 0 ]

IdleBalance == [ pc |-> "idle", force |-> FALSE, order |-> FALSE, at |-> 0,
                 after |-> 0, ok |-> FALSE, got |-> NoCached ]

NoLiquidity ==
    [ done |-> FALSE, ok |-> FALSE, seen |-> 0, after |-> 0, stale |-> FALSE ]

\* the platform account holds the cushion and one order of 200 naira; nothing
\* is cached, no call is under way
LiquidityIdle ==
    /\ lencoBalanceCache = NoCached
    /\ lencoBalanceCachedAt = Never
    /\ lencoAccount = (LENCO_MIN_BALANCE_NGN + 200) * KoboPerNaira
    /\ accepted = 0
    /\ returned = 0
    /\ bal = [p \in 1..NumBalanceCalls |-> IdleBalance]
    /\ xfer = "idle"
    /\ lastCheck = NoLiquidity
    /\ steps = 0

\* parseFloat of a tokenAmount that is missing or not a number
NaN == [ nan |-> TRUE, milli |-> 0 ]

\* no confirm-receipt under study
NoReceipt ==
    [ status |-> "unset", tokenAmount |-> 0, ngnAmount |-> 0,
      reported |-> NaN, done |-> FALSE, resp |-> "none", mismatch |-> FALSE,
      called |-> <<>>, sent |-> <<>> ]

ReceiptIdle == rcpt = NoReceipt

\* the indexer before its first poll: nothing handled, no scan under way;
\* no record stored, no call answered
IdleScan == [ pc |-> "idle", inbound |-> <<>>, i |-> 0, polls |-> 0,
              refused |-> FALSE ]

\* the tx ids of the window: the deposits, then a transfer with a memo of
\* its own, then a transfer that failed on chain
WindowIds == 1..(MaxDeposits + 2)

IndexerIdle ==
    /\ processedTxIds = {}
    /\ idx = [ s \in 1..NumScans |-> IdleScan ]
    /\ persisted = {}
    /\ answers = [ t \in WindowIds |-> "none" ]
    /\ keyAccepted = TRUE

\* no chain tx under the memo test
NoMemo == [ path |-> "none", raw |-> <<>>, bytes |-> <<>>, done |-> FALSE,
            memo |-> <<>>, called |-> <<>> ]

MemoIdle == mm = NoMemo

\* Monnify webhook handlers, each between two requests
MonnifyProcs == 1..NumMonnify

IdleMonnify == [ pc |-> "idle", status |-> "none", sent |-> FALSE ]

\* the onramp record as initializeOnramp stored it, no webhook received
OnrampIdle ==
    /\ onr = [ status |-> "pending", deliveries |-> 0 ]
    /\ mw = [ h \in MonnifyProcs |-> IdleMonnify ]
    /\ sends = 0

LateIdle == MemoIdle /\ OnrampIdle

\* the secret the provider signs its webhooks with
ProviderSecret == "whsec"

\* process.env.LENCO_WEBHOOK_SECRET || "": not set, or the provider's secret
Secrets == {"", ProviderSecret}

\* the environment names no secret
ConfigDefault == LENCO_WEBHOOK_SECRET = ""

\* the state outside the four cores above when the process starts
ExtraIdle ==
    /\ RequestIdle
    /\ LiquidityIdle
    /\ ReceiptIdle
    /\ IndexerIdle
    /\ LateIdle

Init ==
    /\ EngineInit
    /\ now = 1
    /\ chk = NoCheck
    /\ OrderIdle
    /\ PriceIdle(1)
    /\ ExtraIdle
    /\ LENCO_WEBHOOK_SECRET \in Secrets

\* ------------------------------------------------------------ environment
\* initializeOfframp, step 5: a pending record under a new reference (the
\* references are handed out in order)
initializeOfframp(r) ==
    /\ r \notin DOMAIN db
    /\ \A q \in Refs : q < r => q \in DOMAIN db
    /\ db' = db @@ (r :> NewRecord)
    /\ UNCHANGED <<calls, succ, chain, now, cr, wt, wh, reqs>>
    /\ UNCHANGED otherVars

\* an HTTP request reaches its handler
Receive ==
    /\ reqs < MaxRequests
    /\ reqs' = reqs + 1

\* handler invocations are interchangeable: a request runs in the first of
\* the invocations that is not executing
FirstFree(p, free) == p \in free /\ \A q \in free : p <= q

\* ------------------------------------------------------- payout provider
\* initiateLencoTransfer: the POST reaches the provider, which answers with a
\* transfer (res.data.status true) or an error; the provider numbers the
\* transfers it creates for a reference
LencoAnswer(r, ok) ==
    IF ok THEN [ ok |-> TRUE, transferId |-> calls[r] + 1, message |-> "none" ]
    ELSE [ ok |-> FALSE, transferId |-> Unset, message |-> "provider" ]

initiateLencoTransfer(r, ok) ==
    /\ calls[r] < MaxCalls
    /\ calls' = [calls EXCEPT ![r] = @ + 1]
    /\ succ' = [succ EXCEPT ![r] = IF ok THEN @ + 1 ELSE @]

\* the two statements after a successful initiateLencoTransfer, inside the
\* same try block: status = "settling", meta gets the transfer id
Settling(doc, res) ==
    SetMeta(SetStatus(doc, "settling"),
            [doc.meta EXCEPT !.lencoTransferId = res.transferId])

\* the catch block after the try: it catches the provider's error and also a
\* ValidationError thrown by the save() of the try block
LencoFailed(doc, message) ==
    SetMeta(SetStatus(doc, "failed"),
            [doc.meta EXCEPT !.failureReason = "Lenco failed: " \o message,
                             !.requiresManualSettlement = TRUE])

\* try { initiateLencoTransfer; settling; save } catch { failed; save }
\* from the provider's answer on: the document that reaches the store
AfterTransfer(doc, res) ==
    IF res.ok
    THEN IF Valid(Settling(doc, res))
         THEN Settling(doc, res)
         ELSE LencoFailed(Settling(doc, res), "validation")
    ELSE LencoFailed(doc, res.message)

\* whether the try block ran to its end
Settled(doc, res) == res.ok /\ Valid(Settling(doc, res))

\* -------------------------------------------------- confirmTokenReceipt
\* the status checks as they would read if a failed record were let through,
\* the way the watcher's check on freshTx lets it through
ConfirmOutcomeRetryFailed(st) ==
    IF st \in {"confirmed", "processing"} THEN "already"
    ELSE IF st \notin {"pending", "failed"} THEN "400"
    ELSE "proceed"

\* the status checks after findOne
ConfirmOutcome(st) ==
    IF st \in {"confirmed", "processing"} THEN "already"
    ELSE IF st # "pending" THEN "400"
    ELSE "proceed"

\* POST /confirm-receipt arrives: findOne and the checks on the record
confirmRead(p, r, t) ==
    /\ FirstFree(p, {q \in ConfirmProcs : cr[q].pc \in {"idle", "done"}})
    /\ Receive
    /\ LET found == r \in DOMAIN db
           out == IF found THEN ConfirmOutcome(db[r].status) ELSE "404"
           go == out = "proceed"
       IN cr' = [cr EXCEPT ![p] =
                   [ pc    |-> IF go THEN "save_processing" ELSE "done",
                     ref   |-> r,
                     txId  |-> IF go THEN t ELSE 1,
                     doc   |-> IF go THEN Load(r) ELSE NoDoc,
                     res   |-> NoResult,
                     resp  |-> IF go THEN "none" ELSE out,
                     after |-> succ[r] > 0 ]]
    /\ UNCHANGED <<db, calls, succ, chain, now, wt, wh>>
    /\ UNCHANGED otherVars

\* status = "processing", txId, meta = { ...meta, stacksTxId, ... }; save
confirmSaveProcessing(p) ==
    /\ cr[p].pc = "save_processing"
    /\ LET d == SetMeta(SetTxId(SetStatus(cr[p].doc, "processing"), cr[p].txId),
                        cr[p].doc.meta)
       IN /\ db' = [db EXCEPT ![cr[p].ref] = Persist(@, d)]
          /\ cr' = [cr EXCEPT ![p].pc = "transfer", ![p].doc = Saved(d)]
    /\ UNCHANGED <<calls, succ, chain, now, wt, wh, reqs>>
    /\ UNCHANGED otherVars

\* await initiateLencoTransfer(...)
confirmTransfer(p, ok) ==
    /\ cr[p].pc = "transfer"
    /\ initiateLencoTransfer(cr[p].ref, ok)
    /\ cr' = [cr EXCEPT ![p].pc = "save_result",
                        ![p].res = LencoAnswer(cr[p].ref, ok)]
    /\ UNCHANGED <<db, chain, now, wt, wh, reqs>>
    /\ UNCHANGED otherVars

\* the rest of the try block or the catch block, and the response
confirmSaveResult(p) ==
    /\ cr[p].pc = "save_result"
    /\ LET d == AfterTransfer(cr[p].doc, cr[p].res)
       IN /\ db' = [db EXCEPT ![cr[p].ref] = Persist(@, d)]
          /\ cr' = [cr EXCEPT ![p].pc = "done",
                              ![p].txId = 1,
                              ![p].doc = NoDoc,
                              ![p].res = NoResult,
                              ![p].resp = IF Settled(cr[p].doc, cr[p].res)
                                          THEN "initiated" ELSE "500"]
    /\ UNCHANGED <<calls, succ, chain, now, wt, wh, reqs>>
    /\ UNCHANGED otherVars

confirmTokenReceipt ==
    \/ \E p \in ConfirmProcs, r \in Refs, t \in TxIds : confirmRead(p, r, t)
    \/ \E p \in ConfirmProcs : confirmSaveProcessing(p)
    \/ \E p \in ConfirmProcs, ok \in BOOLEAN : confirmTransfer(p, ok)
    \/ \E p \in ConfirmProcs : confirmSaveResult(p)

\* ---------------------------------------------------- notifyTxBroadcast
\* the status check after findOne
\* ["confirmed", "processing", "settling"].includes(tx.status)
NotifyOutcome(st) ==
    IF st \in {"confirmed", "processing", "settling"} THEN "already" ELSE "proceed"

\* POST /notify-tx arrives: findOne and the check on the record
notifyRead(w, r, t) ==
    /\ FirstFree(w, {v \in Watchers : wt[v].pc = "idle"})
    /\ Receive
    /\ LET found == r \in DOMAIN db
           out == IF found THEN NotifyOutcome(db[r].status) ELSE "404"
           go == out = "proceed"
       IN wt' = [wt EXCEPT ![w] =
                   [ pc      |-> IF go THEN "notify_save" ELSE "idle",
                     ref     |-> r,
                     txId    |-> IF go THEN t ELSE 1,
                     doc     |-> IF go THEN Load(r) ELSE NoDoc,
                     res     |-> NoResult,
                     attempt |-> 0,
                     resp    |-> IF go THEN "none" ELSE out ]]
    /\ UNCHANGED <<db, calls, succ, chain, now, cr, wh>>
    /\ UNCHANGED otherVars

\* tx.txId = stacksTxId, meta = { ...meta, stacksTxId, ... }; save; respond; pollAndSettle(...)
\* starts and reaches its first sleep
notifySave(w) ==
    /\ wt[w].pc = "notify_save"
    /\ LET d == SetMeta(SetTxId(wt[w].doc, wt[w].txId), wt[w].doc.meta)
       IN /\ db' = [db EXCEPT ![wt[w].ref] = Persist(@, d)]
          /\ wt' = [wt EXCEPT ![w].pc = "poll", ![w].doc = NoDoc,
                              ![w].attempt = 1, ![w].resp = "received"]
    /\ UNCHANGED <<calls, succ, chain, now, cr, wh, reqs>>
    /\ UNCHANGED otherVars

notifyTxBroadcast ==
    \/ \E w \in Watchers, r \in Refs, t \in TxIds : notifyRead(w, r, t)
    \/ \E w \in Watchers : notifySave(w)

\* --------------------------------------------------------- pollAndSettle
\* the tx_status values with a branch of their own in the loop:
\* abort_by_post_condition takes the branch of abort_by_response and is not
\* told apart from it; every other answer (pending, dropped_*, 404, network
\* error) is "pending" here
FinalStatus == {"success", "abort_by_response"}

\* what one GET /extended/v1/tx/:id can tell the watcher: a transaction not
\* yet seen settled may have settled either way by now, a settled one keeps
\* its status, and any GET may fail
PollResults(t) ==
    IF chain[t] = "pending" THEN FinalStatus \cup {"pending"}
    ELSE {chain[t], "pending"}

\* the chain after the GET: a final status is final
Observed(t, result) ==
    IF result \in FinalStatus THEN [chain EXCEPT ![t] = result] ELSE chain

\* the check on freshTx after tx_status = "success"
WatcherOutcome(st) ==
    IF st \in {"confirmed", "settling", "processing"} THEN "skip" ELSE "proceed"

\* a watcher that never returns
ExitNever(w) == wt[w]

\* the watcher is over
Exit(w) == [wt[w] EXCEPT !.pc = "idle", !.txId = 1, !.doc = NoDoc,
                         !.res = NoResult, !.attempt = 0]

\* one iteration of the loop, up to the findOne that follows a final
\* tx_status (success and abort are final on the chain, so the GET and the
\* findOne after it are taken together)
poll(w, result) ==
    /\ wt[w].pc = "poll"
    /\ result \in PollResults(wt[w].txId)
    /\ chain' = Observed(wt[w].txId, result)
    /\ LET r == wt[w].ref
           found == r \in DOMAIN db
       IN wt' = [wt EXCEPT ![w] =
            CASE result = "success" ->
                   IF found /\ WatcherOutcome(db[r].status) = "proceed"
                   THEN [wt[w] EXCEPT !.pc = "save_processing", !.doc = Load(r)]
                   ELSE Exit(w)
              [] result = "abort_by_response" ->
                   IF found
                   THEN [wt[w] EXCEPT !.pc = "abort_save", !.doc = Load(r)]
                   ELSE Exit(w)
              [] OTHER ->
                   IF wt[w].attempt < MaxAttempts
                   THEN [wt[w] EXCEPT !.attempt = @ + 1]
                   ELSE [wt[w] EXCEPT !.pc = "timeout_read"]]
    /\ UNCHANGED <<db, calls, succ, now, cr, wh, reqs>>
    /\ UNCHANGED otherVars

\* freshTx.status = "processing", txId, meta = { ...meta, stacksTxId, ... }; save
watcherSaveProcessing(w) ==
    /\ wt[w].pc = "save_processing"
    /\ LET d == SetMeta(SetTxId(SetStatus(wt[w].doc, "processing"), wt[w].txId),
                        wt[w].doc.meta)
       IN /\ db' = [db EXCEPT ![wt[w].ref] = Persist(@, d)]
          /\ wt' = [wt EXCEPT ![w].pc = "transfer", ![w].doc = Saved(d)]
    /\ UNCHANGED <<calls, succ, chain, now, cr, wh, reqs>>
    /\ UNCHANGED otherVars

\* await initiateLencoTransfer(...)
watcherTransfer(w, ok) ==
    /\ wt[w].pc = "transfer"
    /\ initiateLencoTransfer(wt[w].ref, ok)
    /\ wt' = [wt EXCEPT ![w].pc = "save_result",
                        ![w].res = LencoAnswer(wt[w].ref, ok)]
    /\ UNCHANGED <<db, chain, now, cr, wh, reqs>>
    /\ UNCHANGED otherVars

\* the rest of the try block or the catch block; return
watcherSaveResult(w) ==
    /\ wt[w].pc = "save_result"
    /\ db' = [db EXCEPT ![wt[w].ref] =
                 Persist(@, AfterTransfer(wt[w].doc, wt[w].res))]
    /\ wt' = [wt EXCEPT ![w] = Exit(w)]
    /\ UNCHANGED <<calls, succ, chain, now, cr, wh, reqs>>
    /\ UNCHANGED otherVars

\* failTx.status = "failed", meta.failureReason; save; return
watcherAbortSave(w) ==
    /\ wt[w].pc = "abort_save"
    /\ LET d == SetMeta(SetStatus(wt[w].doc, "failed"),
                        [wt[w].doc.meta EXCEPT
                            !.failureReason = "Stacks TX aborted"])
       IN db' = [db EXCEPT ![wt[w].ref] = Persist(@, d)]
    /\ wt' = [wt EXCEPT ![w] = Exit(w)]
    /\ UNCHANGED <<calls, succ, chain, now, cr, wh, reqs>>
    /\ UNCHANGED otherVars

\* after the loop: findOne, and the check for pending
watcherTimeoutRead(w) ==
    /\ wt[w].pc = "timeout_read"
    /\ LET r == wt[w].ref
       IN wt' = [wt EXCEPT ![w] =
            IF r \in DOMAIN db /\ db[r].status = "pending"
            THEN [wt[w] EXCEPT !.pc = "timeout_save", !.doc = Load(r)]
            ELSE Exit(w)]
    /\ UNCHANGED <<db, calls, succ, chain, now, cr, wh, reqs>>
    /\ UNCHANGED otherVars

\* timeoutTx.status = "failed", meta.failureReason; save
watcherTimeoutSave(w) ==
    /\ wt[w].pc = "timeout_save"
    /\ LET d == SetMeta(SetStatus(wt[w].doc, "failed"),
                        [wt[w].doc.meta EXCEPT !.failureReason = "Poll timeout"])
       IN db' = [db EXCEPT ![wt[w].ref] = Persist(@, d)]
    /\ wt' = [wt EXCEPT ![w] = Exit(w)]
    /\ UNCHANGED <<calls, succ, chain, now, cr, wh, reqs>>
    /\ UNCHANGED otherVars

pollAndSettle ==
    \/ \E w \in Watchers, result \in FinalStatus \cup {"pending"} :
          poll(w, result)
    \/ \E w \in Watchers : watcherSaveProcessing(w)
    \/ \E w \in Watchers, ok \in BOOLEAN : watcherTransfer(w, ok)
    \/ \E w \in Watchers : watcherSaveResult(w)
    \/ \E w \in Watchers : watcherAbortSave(w)
    \/ \E w \in Watchers : watcherTimeoutRead(w)
    \/ \E w \in Watchers : watcherTimeoutSave(w)

\* ---------------------------------------------------- handleLencoWebhook
WebhookEvents == {"transfer.completed", "transfer.failed", "transfer.reversed",
                  "transfer.successful"}

\* what the handler does with the record it found, by event
WebhookOutcome(event, st) ==
    IF event = "transfer.completed"
    THEN IF st = "confirmed" THEN "Already confirmed" ELSE "proceed"
    ELSE "proceed"

\* the body of a webhook as sent: its event, its data.reference, and
\* whether its text is laid out otherwise than JSON.stringify lays it out
RawBodies(r, event) ==
    [ event : {event}, reference : {r}, spaced : BOOLEAN ]

\* express.json(): the object the text denotes
JSONparse(raw) == [ event |-> raw.event, reference |-> raw.reference ]

\* JSON.stringify(payload): the text of the object without white space
JSONstringify(payload) ==
    [ event |-> payload.event, reference |-> payload.reference,
      spaced |-> FALSE ]

\* crypto.createHmac("sha256", key).update(text).digest("hex"): equal for
\* equal key and text only
createHmac(key, text) == [ key |-> key, text |-> text ]

\* no x-lenco-signature header
NoSignature ==
    createHmac("none", [ event |-> "none", reference |-> 0, spaced |-> FALSE ])

\* the x-lenco-signature header of a webhook: none, the provider's over the
\* body as sent, or one made without the provider's secret
Signatures(raw) ==
    { NoSignature, createHmac(ProviderSecret, raw), createHmac("guess", raw) }

\* verifyLencoSignature
verifyLencoSignature(payload, signature) ==
    IF LENCO_WEBHOOK_SECRET = "" THEN TRUE
    ELSE createHmac(LENCO_WEBHOOK_SECRET, JSONstringify(payload)) = signature

\* the two tests of handleLencoWebhook on the header
Signed(raw, signature) ==
    /\ signature # NoSignature
    /\ verifyLencoSignature(JSONparse(raw), signature)

\* POST /lenco-webhook arrives: signature check, then by event the findOne
\* and the check on the record
webhookRead(h, raw, signature) ==
    /\ FirstFree(h, {g \in WebhookProcs : wh[g].pc \in {"idle", "done"}})
    /\ Receive
    /\ LET r == JSONparse(raw).reference
           event == JSONparse(raw).event
           signed == Signed(raw, signature)
           found == r \in DOMAIN db
           handled == event \in {"transfer.completed", "transfer.failed",
                                 "transfer.reversed"}
           out == IF ~signed THEN "401"
                  ELSE IF ~handled THEN "acknowledged"
                  ELSE IF ~found
                       THEN (IF event = "transfer.completed"
                             THEN "Webhook received" ELSE "Failure recorded")
                  ELSE WebhookOutcome(event, db[r].status)
           go == out = "proceed"
       IN wh' = [wh EXCEPT ![h] =
                   [ pc    |-> IF go THEN "save" ELSE "done",
                     ref   |-> r,
                     event |-> IF go THEN event ELSE "none",
                     authentic |->
                         signature = createHmac(LENCO_WEBHOOK_SECRET, raw),
                     doc   |-> IF go THEN Load(r) ELSE NoDoc,
                     resp  |-> IF go THEN "none" ELSE out ]]
    /\ UNCHANGED <<db, calls, succ, chain, now, cr, wt>>
    /\ UNCHANGED otherVars

\* the assignments of the event's branch, at time t
WebhookUpdate(doc, event, t) ==
    IF event = "transfer.completed"
    THEN SetMeta(SetConfirmedAt(SetStatus(doc, "confirmed"), t),
                 [doc.meta EXCEPT !.lencoStatus = "completed"])
    ELSE SetMeta(SetStatus(doc, "failed"),
                 [doc.meta EXCEPT !.lencoStatus = "failed",
                                  !.failureReason = "Lenco event",
                                  !.requiresManualSettlement = TRUE])

\* the assignments, dt milliseconds after the clock was last read; save; respond
webhookSave(h, dt) ==
    /\ wh[h].pc = "save"
    /\ now + dt <= MaxClock + 1
    /\ now' = now + dt
    /\ LET d == WebhookUpdate(wh[h].doc, wh[h].event, now + dt)
       IN db' = [db EXCEPT ![wh[h].ref] = Persist(@, d)]
    /\ wh' = [wh EXCEPT ![h].pc = "done", ![h].doc = NoDoc,
                        ![h].event = "none",
                        ![h].resp = IF wh[h].event = "transfer.completed"
                                    THEN "Transaction confirmed"
                                    ELSE "Failure recorded"]
    /\ UNCHANGED <<calls, succ, chain, cr, wt, reqs>>
    /\ UNCHANGED otherVars

handleLencoWebhook ==
    \/ \E h \in WebhookProcs, r \in Refs, event \in WebhookEvents :
          \E raw \in RawBodies(r, event) :
             \E signature \in Signatures(raw) : webhookRead(h, raw, signature)
    \/ \E h \in WebhookProcs, dt \in {0, 1} : webhookSave(h, dt)

\* ------------------------------------------------------------------ Spec
Next ==
    \/ \E r \in Refs : initializeOfframp(r)
    \/ confirmTokenReceipt
    \/ notifyTxBroadcast
    \/ pollAndSettle
    \/ handleLencoWebhook

Spec == Init /\ [][Next]_vars

\* What the event loop owes a handler that is under way: the continuation of
\* an await runs once the awaited call has settled, and every awaited call
\* here settles (the store and the provider answer or time out, the sleep
\* of the watcher ends). Nothing makes a request arrive.
Continuations ==
    \/ \E p \in ConfirmProcs : confirmSaveProcessing(p)
    \/ \E p \in ConfirmProcs, ok \in BOOLEAN : confirmTransfer(p, ok)
    \/ \E p \in ConfirmProcs : confirmSaveResult(p)
    \/ \E w \in Watchers : notifySave(w)
    \/ pollAndSettle
    \/ \E h \in WebhookProcs, dt \in {0, 1} : webhookSave(h, dt)

LiveSpec == Init /\ [][Next]_vars /\ WF_vars(Continuations)

\* ------------------------------------------- notify-tx, one chain tx id
\* POST /initialize, POST /notify-tx and the watchers alone, for one more
\* reference than the engine above has, every notify-tx naming the same
\* chain transaction.
SameTxRefs == 1..(MaxRefs + 1)

\* the chain transaction every notify-tx names
SameTx == CHOOSE t \in TxIds : \A u \in TxIds : t <= u

SameTxInit ==
    /\ db = <<>>
    /\ calls = [r \in SameTxRefs |-> 0]
    /\ succ = [r \in SameTxRefs |-> 0]
    /\ chain = [t \in TxIds |-> "pending"]
    /\ cr = [p \in ConfirmProcs |-> IdleConfirm]
    /\ wt = [w \in Watchers |-> IdleWatcher]
    /\ wh = [h \in WebhookProcs |-> IdleWebhook]
    /\ reqs = 0
    /\ now = 1
    /\ chk = NoCheck
    /\ OrderIdle
    /\ PriceIdle(1)
    /\ ExtraIdle
    /\ ConfigDefault

SameTxNext ==
    \/ \E r \in SameTxRefs : initializeOfframp(r)
    \/ \E w \in Watchers, r \in SameTxRefs : notifyRead(w, r, SameTx)
    \/ \E w \in Watchers : notifySave(w)
    \/ pollAndSettle

SameTxSpec == SameTxInit /\ [][SameTxNext]_vars

\* ------------------------------------------------------- status checks
\* The check each handler makes on the record findOne returned, taken alone:
\* a function of the record's status (and of the event, for the webhook).
\* It is swept over every status the API documents for a transaction
\* (routes/transactions.js, and statusMessages of getOfframpStatus) and over
\* the case of no record.
DocumentedStatus == {"pending", "processing", "settling", "confirmed", "failed"}

CheckInit ==
    /\ EngineInit
    /\ now = 1
    /\ chk \in [ handler : {"none"},
                 st      : DocumentedStatus \cup {"absent"},
                 event   : WebhookEvents,
                 out     : {"none"} ]
    /\ OrderIdle
    /\ PriceIdle(1)
    /\ ExtraIdle
    /\ ConfigDefault

\* confirmTokenReceipt: if (!tx) 404, then the two tests on tx.status
checkConfirm ==
    /\ chk.handler = "none"
    /\ chk' = [chk EXCEPT !.handler = "confirmTokenReceipt",
                          !.out = IF chk.st = "absent" THEN "404"
                                  ELSE ConfirmOutcome(chk.st)]
    /\ UNCHANGED <<engineVars, now, orderVars, priceVars, extraVars>>

\* notifyTxBroadcast: if (!tx) 404, then the test on tx.status
checkNotify ==
    /\ chk.handler = "none"
    /\ chk' = [chk EXCEPT !.handler = "notifyTxBroadcast",
                          !.out = IF chk.st = "absent" THEN "404"
                                  ELSE NotifyOutcome(chk.st)]
    /\ UNCHANGED <<engineVars, now, orderVars, priceVars, extraVars>>

\* pollAndSettle after tx_status success: if (!freshTx) return, then the test
\* on freshTx.status
checkWatcher ==
    /\ chk.handler = "none"
    /\ chk' = [chk EXCEPT !.handler = "pollAndSettle",
                          !.out = IF chk.st = "absent" THEN "skip"
                                  ELSE WatcherOutcome(chk.st)]
    /\ UNCHANGED <<engineVars, now, orderVars, priceVars, extraVars>>

\* handleLencoWebhook with a valid signature, by event: if (!tx) answer, then
\* the test on tx.status
checkWebhook ==
    /\ chk.handler = "none"
    /\ chk' = [chk EXCEPT !.handler = "handleLencoWebhook",
                          !.out = IF chk.event = "transfer.successful"
                                  THEN "acknowledged"
                                  ELSE IF chk.st = "absent"
                                  THEN (IF chk.event = "transfer.completed"
                                        THEN "Webhook received"
                                        ELSE "Failure recorded")
                                  ELSE WebhookOutcome(chk.event, chk.st)]
    /\ UNCHANGED <<engineVars, now, orderVars, priceVars, extraVars>>

CheckNext ==
    \/ checkConfirm
    \/ checkNotify
    \/ checkWatcher
    \/ checkWebhook

CheckSpec == CheckInit /\ [][CheckNext]_vars

\* ----------------------------------------------------- initializeOfframp
\* POST /initialize in detail: validation, quote, reference, Transaction.create.
\* The handler shares nothing with other requests but the collection and the
\* clock, and reads the clock in the statement before the insert, so one
\* request is one action.
OFFRAMP_FLAT_FEE_NGN == 100
MIN_TOKEN_AMOUNT == 1
MAX_TOKEN_AMOUNT == 50000

\* tokenAmount of a request: missing or zero, below the minimum, the minimum,
\* a fraction above it, above the maximum
Amounts == { 0, AmountScale \div 2, AmountScale, AmountScale + 1,
             MAX_TOKEN_AMOUNT * AmountScale + 1 }

\* priceNGN getCurrentPrices returned for the token: 50, a fraction above
\* 100, 300 naira
Rates == { 50 * RateScale, 100 * RateScale + 1, 300 * RateScale }

\* what else can stop a request: an unsupported token, a bank account the
\* provider does not resolve, not enough liquidity
Failures == {"none", "token", "bank", "liquidity"}

\* calculateOfframpQuote: Math.floor(tokenAmount * priceNGN - OFFRAMP_FLAT_FEE_NGN)
calculateOfframpQuote(a, r) ==
    (a * r - OFFRAMP_FLAT_FEE_NGN * AmountScale * RateScale)
        \div (AmountScale * RateScale)

\* the test for a quote without its guard
QuoteTooSmallUnchecked(ngnAmount) == FALSE

\* if (ngnAmount <= 0) throw
QuoteTooSmall(ngnAmount) == ngnAmount <= 0

\* generateReference: SSWAP_OFFRAMP_<Date.now() in base 36>_<8 hex digits>;
\* the two parts have their own alphabets around a separator, so the string
\* determines the pair and the pair the string
generateReference(ts, rand) == <<ts, rand>>

\* the document Transaction.create is given
OrderRecord(a, r, ts, rand) ==
    [ paymentReference |-> generateReference(ts, rand),
      tokenAmount      |-> a,
      ngnAmount        |-> calculateOfframpQuote(a, r) ]

\* the validators of the schema on the paths of the document: min 0
ValidOrder(rec) == rec.tokenAmount >= 0 /\ rec.ngnAmount >= 0

\* the response of the handler, in the order of its tests
OrderVerdict(a, r, fail, rand) ==
    IF a = 0 \/ fail = "token" THEN "400"
    ELSE IF a < MIN_TOKEN_AMOUNT * AmountScale THEN "400"
    ELSE IF a > MAX_TOKEN_AMOUNT * AmountScale THEN "400"
    ELSE IF fail = "bank" THEN "400"
    ELSE IF QuoteTooSmall(calculateOfframpQuote(a, r)) THEN "500"
    ELSE IF fail = "liquidity" THEN "503"
    ELSE IF ~ValidOrder(OrderRecord(a, r, now, rand)) THEN "500"
    ELSE "201"

\* one POST /initialize; the index on paymentReference is not unique, so
\* the insert succeeds whatever the collection holds
initializeOfframpRequest(a, r, fail, rand) ==
    /\ ord.n < MaxOrders
    /\ LET resp == OrderVerdict(a, r, fail, rand)
       IN /\ ord' = [ n |-> ord.n + 1, amount |-> a, rate |-> r, resp |-> resp ]
          /\ txs' = IF resp = "201"
                    THEN txs (+) SetToBag({OrderRecord(a, r, now, rand)})
                    ELSE txs
    /\ UNCHANGED <<engineVars, now, checkVars, priceVars, extraVars>>

\* a millisecond passes
orderTick ==
    /\ now <= MaxClock
    /\ now' = now + 1
    /\ UNCHANGED <<engineVars, checkVars, orderVars, priceVars, extraVars>>

OrderInit ==
    /\ EngineInit
    /\ now = 1
    /\ chk = NoCheck
    /\ OrderIdle
    /\ PriceIdle(1)
    /\ ExtraIdle
    /\ ConfigDefault

OrderNext ==
    \/ \E a \in Amounts, r \in Rates, fail \in Failures, rand \in 1..MaxRand :
          initializeOfframpRequest(a, r, fail, rand)
    \/ orderTick

OrderSpec == OrderInit /\ [][OrderNext]_vars

\* ------------------------------------------- initializeOfframp, the tests
\* Every test POST /initialize makes on its body and on what it is told by
\* the bank resolution, the environment, the quote and the balance, taken
\* alone: the response and whether a record is created are a function of
\* these. The function is swept over bodies and environments on each side of
\* every test.

\* String.prototype.toUpperCase on the strings of the sweep
toUpperCase(str) ==
    CASE str = "stx"  -> "STX"
      [] str = "usdc" -> "USDC"
      [] str = "sp"   -> "SP"
      [] str = "sm"   -> "SM"
      [] str = "st"   -> "ST"
      [] OTHER        -> str

\* token of a body: absent, the two tokens in either case, another token
Tokens == {"", "STX", "usdc", "BTC"}

\* stacksAddress of a body: its first two characters, the class of the
\* characters that follow (upper: digits and capitals only; lower: digits and
\* letters, some of them small; symbol: some other character) and their
\* number
Addresses ==
    { [ prefix |-> "SP", body |-> "upper",  len |-> 39 ],
      [ prefix |-> "sp", body |-> "lower",  len |-> 39 ],
      [ prefix |-> "ST", body |-> "upper",  len |-> 19 ],
      [ prefix |-> "SM", body |-> "upper",  len |-> 51 ],
      [ prefix |-> "SP", body |-> "symbol", len |-> 39 ],
      [ prefix |-> "BC", body |-> "upper",  len |-> 39 ] }

\* accountNumber of a body: its length and whether it is all digits
AccountNumbers ==
    { [ len |-> 10, digits |-> TRUE ], [ len |-> 9, digits |-> TRUE ],
      [ len |-> 11, digits |-> TRUE ], [ len |-> 10, digits |-> FALSE ] }

\* what getLencoAccountBalance returns: null, or kobo / 100 naira; the values
\* lie around the cushion and around the cushion plus a quote of 200 naira
Balances ==
    { [ known |-> FALSE, kobo |-> 0 ] } \cup
    { [ known |-> TRUE, kobo |-> k ] :
        k \in { 0,
                LENCO_MIN_BALANCE_NGN * KoboPerNaira - 50,
                (LENCO_MIN_BALANCE_NGN + 200) * KoboPerNaira - 1,
                (LENCO_MIN_BALANCE_NGN + 200) * KoboPerNaira,
                (LENCO_MIN_BALANCE_NGN + 1000) * KoboPerNaira } }

Requests ==
    [ token : Tokens, tokenAmount : Amounts, stacksAddress : Addresses,
      accountNumber : AccountNumbers ]

\* verifyBankAccount resolves or throws, PLATFORM_STX_ADDRESS is set or not,
\* the price of the token, the balance
Envs == [ bankOk : BOOLEAN, deposit : BOOLEAN, rate : Rates, balance : Balances ]

\* stacksAddress.match(/^(SP|SM|ST)[0-9A-Z]{20,50}$/i)
MatchesStacksAddress(addr) ==
    /\ toUpperCase(addr.prefix) \in {"SP", "SM", "ST"}
    /\ addr.body \in {"upper", "lower"}
    /\ addr.len >= 20 /\ addr.len <= 50

\* /^\d{10}$/.test(accountNumber)
MatchesAccountNumber(acct) == acct.digits /\ acct.len = 10

\* checkLiquidity with a cushion of nothing
checkLiquidityNoCushion(requiredNGN, balance) ==
    IF ~balance.known THEN [ ok |-> FALSE, availableNGN |-> balance ]
    ELSE IF balance.kobo < requiredNGN * KoboPerNaira
         THEN [ ok |-> FALSE, availableNGN |-> balance ]
         ELSE [ ok |-> TRUE, availableNGN |-> balance ]

\* checkLiquidity, given what getLencoAccountBalance returned
checkLiquidity(requiredNGN, balance) ==
    IF ~balance.known THEN [ ok |-> FALSE, availableNGN |-> balance ]
    ELSE IF balance.kobo < (requiredNGN + LENCO_MIN_BALANCE_NGN) * KoboPerNaira
         THEN [ ok |-> FALSE, availableNGN |-> balance ]
         ELSE [ ok |-> TRUE, availableNGN |-> balance ]

Max(a, b) == IF a >= b THEN a ELSE b

\* Math.max(0, Math.floor(availableNGN - LENCO_MIN_BALANCE_NGN)), or null
maxOrderNGN(availableNGN) ==
    IF ~availableNGN.known THEN NoAmount
    ELSE Max(0, (availableNGN.kobo - LENCO_MIN_BALANCE_NGN * KoboPerNaira)
                    \div KoboPerNaira)

Rejected(status) ==
    [ status |-> status, code |-> "none", maxOrderNGN |-> NoAmount,
      created |-> FALSE ]

\* the response of initializeOfframp, in the order of its tests
initializeOfframpResponse(req, env, ts, rand) ==
    LET upperToken == toUpperCase(req.token)
        amount     == req.tokenAmount
        ngnAmount  == calculateOfframpQuote(amount, env.rate)
        liquidity  == checkLiquidity(ngnAmount, env.balance)
    IN  IF req.token = "" \/ amount = 0 THEN Rejected("400")
        ELSE IF upperToken \notin {"STX", "USDC"} THEN Rejected("400")
        ELSE IF amount < MIN_TOKEN_AMOUNT * AmountScale THEN Rejected("400")
        ELSE IF amount > MAX_TOKEN_AMOUNT * AmountScale THEN Rejected("400")
        ELSE IF ~MatchesStacksAddress(req.stacksAddress) THEN Rejected("400")
        ELSE IF ~MatchesAccountNumber(req.accountNumber) THEN Rejected("400")
        ELSE IF ~env.bankOk THEN Rejected("400")
        ELSE IF ~env.deposit THEN Rejected("503")
        ELSE IF QuoteTooSmall(ngnAmount) THEN Rejected("500")
        ELSE IF ~liquidity.ok
             THEN [ status |-> "503", code |-> "INSUFFICIENT_LIQUIDITY",
                    maxOrderNGN |-> maxOrderNGN(liquidity.availableNGN),
                    created |-> FALSE ]
        ELSE IF ~ValidOrder(OrderRecord(amount, env.rate, ts, rand))
             THEN Rejected("500")
        ELSE [ status |-> "201", code |-> "none", maxOrderNGN |-> NoAmount,
               created |-> TRUE ]

\* the paths of the document given to Transaction.create that the tests bear on
CreatedRecord(req, env, ts, rand) ==
    [ token         |-> toUpperCase(req.token),
      tokenAmount   |-> req.tokenAmount,
      ngnAmount     |-> calculateOfframpQuote(req.tokenAmount, env.rate),
      senderAddress |-> req.stacksAddress,
      status        |-> "pending",
      paymentReference |-> generateReference(ts, rand) ]

\* the one POST /initialize of the sweep
initializeOfframpOnce ==
    /\ ~ini.done
    /\ ini' = [ini EXCEPT !.done = TRUE,
                          !.resp = initializeOfframpResponse(ini.req, ini.env,
                                                             now, 1)]
    /\ UNCHANGED <<engineVars, now, checkVars, orderVars, priceVars,
                   liquidityVars, configVars, receiptVars, indexerVars, lateVars>>

RequestInit ==
    /\ EngineInit
    /\ now = 1
    /\ chk = NoCheck
    /\ OrderIdle
    /\ PriceIdle(1)
    /\ ini \in [ req : Requests, env : Envs, done : {FALSE},
                 resp : {NoResponse} ]
    /\ LiquidityIdle
    /\ ConfigDefault
    /\ ReceiptIdle
    /\ IndexerIdle
    /\ LateIdle

RequestNext == initializeOfframpOnce

RequestSpec == RequestInit /\ [][RequestNext]_vars

\* ------------------------------------------------------- the balance cache
\* getLencoAccountBalance, its callers and initiateLencoTransfer over the two
\* module variables of the cache and the account at the provider. A call of
\* getLencoAccountBalance reads the clock and the cache, and on a miss awaits
\* the GET; the provider reads the account at some instant of the exchange;
\* the continuation writes the cache. initiateLencoTransfer awaits the POST;
\* the provider debits the account; the continuation clears the cache.

\* the naira of the payout and of the order the guard is asked about
OrderNGN == calculateOfframpQuote(AmountScale, 300 * RateScale)

\* !lencoBalanceCachedAt || now - lencoBalanceCachedAt > BALANCE_CACHE_TTL_MS
cacheStale(t) ==
    lencoBalanceCachedAt = Never \/ t - lencoBalanceCachedAt > BALANCE_CACHE_TTL_MS

\* what a caller does with the balance: checkLiquidity decides on an order
\* (order), getLiquidityInfo and the webhook only report it; stale records
\* that the balance came out of the cache past its life
AfterBalance(call, got, stale) ==
    IF call.order
    THEN [ done  |-> TRUE,
           ok    |-> checkLiquidity(OrderNGN, got.balance).ok,
           seen  |-> got.seen,
           after |-> call.after,
           stale |-> stale ]
    ELSE lastCheck

\* getLencoAccountBalance up to its await: the cached balance on a hit,
\* else the GET is sent; checkLiquidity calls it without forceRefresh,
\* getLiquidityInfo and the webhook with
getBalanceStart(p, order) ==
    /\ FirstFree(p, {q \in 1..NumBalanceCalls : bal[q].pc = "idle"})
    /\ LET call == [IdleBalance EXCEPT !.force = ~order, !.order = order,
                                       !.at = now, !.after = returned]
       IN IF ~call.force /\ lencoBalanceCache.balance.known /\ ~cacheStale(now)
          THEN /\ lastCheck' = AfterBalance(call, lencoBalanceCache, FALSE)
               /\ UNCHANGED bal
          ELSE /\ bal' = [bal EXCEPT ![p] = [call EXCEPT !.pc = "fetching"]]
               /\ UNCHANGED lastCheck
    /\ UNCHANGED <<lencoBalanceCache, lencoBalanceCachedAt, lencoAccount,
                   accepted, returned, xfer, steps>>
    /\ UNCHANGED <<engineVars, now, checkVars, orderVars, priceVars, requestVars,
                   configVars, receiptVars, indexerVars, lateVars>>

\* the provider answers the GET with the balance of the account, or the
\* request fails
lencoReportsBalance(p, ok) ==
    /\ bal[p].pc = "fetching"
    /\ bal' = [bal EXCEPT ![p].pc = "answered", ![p].ok = ok,
                 ![p].got = IF ok
                            THEN [ balance |-> [ known |-> TRUE,
                                                 kobo |-> lencoAccount ],
                                   seen |-> accepted ]
                            ELSE NoCached]
    /\ UNCHANGED <<lencoBalanceCache, lencoBalanceCachedAt, lencoAccount,
                   accepted, returned, xfer, lastCheck, steps>>
    /\ UNCHANGED <<engineVars, now, checkVars, orderVars, priceVars, requestVars,
                   configVars, receiptVars, indexerVars, lateVars>>

\* getLencoAccountBalance after its await: the answer goes into the cache
\* under the instant read before the GET; on an error the cached balance,
\* however old, or null
getBalanceEnd(p) ==
    /\ bal[p].pc = "answered"
    /\ IF bal[p].ok
       THEN /\ lencoBalanceCache' = bal[p].got
            /\ lencoBalanceCachedAt' = bal[p].at
            /\ lastCheck' = AfterBalance(bal[p], bal[p].got, FALSE)
       ELSE /\ UNCHANGED <<lencoBalanceCache, lencoBalanceCachedAt>>
            /\ lastCheck' = AfterBalance(bal[p], lencoBalanceCache, cacheStale(now))
    /\ bal' = [bal EXCEPT ![p] = IdleBalance]
    /\ UNCHANGED <<lencoAccount, accepted, returned, xfer, steps>>
    /\ UNCHANGED <<engineVars, now, checkVars, orderVars, priceVars, requestVars,
                   configVars, receiptVars, indexerVars, lateVars>>

\* initiateLencoTransfer up to its await: the POST is sent
transferPost ==
    /\ xfer = "idle"
    /\ returned < MaxPayouts
    /\ xfer' = "posted"
    /\ UNCHANGED <<lencoBalanceCache, lencoBalanceCachedAt, lencoAccount,
                   accepted, returned, bal, lastCheck, steps>>
    /\ UNCHANGED <<engineVars, now, checkVars, orderVars, priceVars, requestVars,
                   configVars, receiptVars, indexerVars, lateVars>>

\* the provider accepts the transfer and debits the account, or refuses it
lencoAcceptsTransfer(ok) ==
    /\ xfer = "posted"
    /\ IF ok
       THEN /\ xfer' = "accepted"
            /\ lencoAccount' = lencoAccount - OrderNGN * KoboPerNaira
            /\ accepted' = accepted + 1
       ELSE /\ xfer' = "refused"
            /\ UNCHANGED <<lencoAccount, accepted>>
    /\ UNCHANGED <<lencoBalanceCache, lencoBalanceCachedAt, returned, bal,
                   lastCheck, steps>>
    /\ UNCHANGED <<engineVars, now, checkVars, orderVars, priceVars, requestVars,
                   configVars, receiptVars, indexerVars, lateVars>>

\* initiateLencoTransfer after its await: on success the cache is cleared
\* and the result returned; on a refusal the error is thrown
transferReturn ==
    /\ xfer \in {"accepted", "refused"}
    /\ xfer' = "idle"
    /\ IF xfer = "accepted"
       THEN /\ lencoBalanceCache' = NoCached
            /\ lencoBalanceCachedAt' = Never
            /\ returned' = returned + 1
       ELSE UNCHANGED <<lencoBalanceCache, lencoBalanceCachedAt, returned>>
    /\ UNCHANGED <<lencoAccount, accepted, bal, lastCheck, steps>>
    /\ UNCHANGED <<engineVars, now, checkVars, orderVars, priceVars, requestVars,
                   configVars, receiptVars, indexerVars, lateVars>>

\* a second passes, or the life of a cached balance and a second
liquidityClock(dt) ==
    /\ steps < MaxSteps
    /\ steps' = steps + 1
    /\ now' = now + dt
    /\ UNCHANGED <<lencoBalanceCache, lencoBalanceCachedAt, lencoAccount,
                   accepted, returned, bal, xfer, lastCheck>>
    /\ UNCHANGED <<engineVars, checkVars, orderVars, priceVars, requestVars,
                   configVars, receiptVars, indexerVars, lateVars>>

LiquidityInit ==
    /\ EngineInit
    /\ now = 1
    /\ chk = NoCheck
    /\ OrderIdle
    /\ PriceIdle(1)
    /\ ExtraIdle
    /\ ConfigDefault

LiquidityNext ==
    \/ \E p \in 1..NumBalanceCalls, order \in BOOLEAN : getBalanceStart(p, order)
    \/ \E p \in 1..NumBalanceCalls, ok \in BOOLEAN : lencoReportsBalance(p, ok)
    \/ \E p \in 1..NumBalanceCalls : getBalanceEnd(p)
    \/ transferPost
    \/ \E ok \in BOOLEAN : lencoAcceptsTransfer(ok)
    \/ transferReturn
    \/ \E dt \in {1, BALANCE_CACHE_TTL_MS + 1} : liquidityClock(dt)

LiquiditySpec == LiquidityInit /\ [][LiquidityNext]_vars

\* ------------------------------------------ confirmTokenReceipt, the amount
\* One confirm-receipt taken alone, with the amounts the engine above leaves
\* out: the record's tokenAmount and ngnAmount, the tokenAmount the caller
\* reports, the amount the payout is asked for. Token amounts of a record are
\* in units of 1/AmountScale, reported amounts in thousandths of that unit,
\* so the 0.1 % tolerance is exact.
ReceiptAmounts == { AmountScale, AmountScale + 1, 3 * AmountScale }

\* the records POST /initialize can have stored: the quote was positive
ReceiptRecords ==
    { rec \in [ tokenAmount : ReceiptAmounts, rate : Rates ] :
        ~QuoteTooSmall(calculateOfframpQuote(rec.tokenAmount, rec.rate)) }

Reported(milli) == [ nan |-> FALSE, milli |-> milli ]

\* req.body.tokenAmount through parseFloat: the expected amount, the edge of
\* the tolerance on either side and one step beyond it, nothing delivered,
\* twice the amount, no number at all
ReportedAmounts(a) ==
    { Reported(1000 * a), Reported(1000 * a + a), Reported(1000 * a + a + 1),
      Reported(1000 * a - a), Reported(1000 * a - a - 1), Reported(0),
      Reported(2000 * a), NaN }

\* Math.abs
Abs(x) == IF x < 0 THEN -x ELSE x

\* tolerance = tx.tokenAmount * 0.001; diff = Math.abs(parseFloat(tokenAmount)
\* - tx.tokenAmount); diff > tolerance. Every comparison with NaN is false.
AmountMismatch(a, reported) ==
    /\ ~reported.nan
    /\ Abs(reported.milli - 1000 * a) > a

\* String(amountNGN) of a whole number of naira: its decimal digits
RECURSIVE String(_)
String(n) == IF n < 10 THEN <<n>> ELSE Append(String(n \div 10), n % 10)

\* the number a string of decimal digits stands for
RECURSIVE Number(_)
Number(str) ==
    IF str = <<>> THEN 0
    ELSE 10 * Number(SubSeq(str, 1, Len(str) - 1)) + str[Len(str)]

\* a payout that follows what the caller says was delivered
amountNGNByReceipt(ngnAmount, a, reported) ==
    IF reported.nan THEN 0 ELSE (ngnAmount * reported.milli) \div (1000 * a)

\* the first argument of initiateLencoTransfer
amountNGN(ngnAmount, a, reported) == ngnAmount

\* the body of the POST to the provider
TransferPayload(amount, hasAccount) ==
    IF hasAccount THEN << [ amount |-> String(amount) ] >> ELSE <<>>

\* the response of confirm-receipt on a record with this status; a payout the
\* provider accepts ends in the save of a status the schema may not know
ReceiptResponse(status, lencoOk) ==
    IF status = "absent" THEN "404"
    ELSE IF status \in {"confirmed", "processing"} THEN "200 already"
    ELSE IF status # "pending" THEN "400"
    ELSE IF lencoOk /\ "settling" \in StatusEnum THEN "200"
    ELSE "500"

\* POST /confirm-receipt from the lookup to the response. hasAccount:
\* LENCO_ACCOUNT_ID is set; lencoOk: the provider accepts the transfer.
confirmTokenReceiptOnce(hasAccount, lencoOk) ==
    /\ ~rcpt.done
    /\ rcpt.status # "unset"
    /\ LET paid == rcpt.status = "pending"
           amount == amountNGN(rcpt.ngnAmount, rcpt.tokenAmount, rcpt.reported)
       IN rcpt' = [ rcpt EXCEPT
              !.done     = TRUE,
              !.resp     = ReceiptResponse(rcpt.status, hasAccount /\ lencoOk),
              !.mismatch = paid /\ AmountMismatch(rcpt.tokenAmount, rcpt.reported),
              !.called   = IF paid THEN <<amount>> ELSE <<>>,
              !.sent     = IF paid THEN TransferPayload(amount, hasAccount)
                           ELSE <<>> ]
    /\ UNCHANGED <<engineVars, now, checkVars, orderVars, priceVars, requestVars,
                   liquidityVars, configVars, indexerVars, lateVars>>

ReceiptInit ==
    /\ EngineInit
    /\ now = 1
    /\ chk = NoCheck
    /\ OrderIdle
    /\ PriceIdle(1)
    /\ RequestIdle
    /\ LiquidityIdle
    /\ IndexerIdle
    /\ LateIdle
    /\ ConfigDefault
    /\ \E status \in DocumentedStatus \cup {"absent"}, rec \in ReceiptRecords :
         \E reported \in ReportedAmounts(rec.tokenAmount) :
            rcpt = [ NoReceipt EXCEPT
                       !.status      = status,
                       !.tokenAmount = rec.tokenAmount,
                       !.ngnAmount   = calculateOfframpQuote(rec.tokenAmount, rec.rate),
                       !.reported    = reported ]

ReceiptNext ==
    \E hasAccount \in BOOLEAN, lencoOk \in BOOLEAN :
        confirmTokenReceiptOnce(hasAccount, lencoOk)

ReceiptSpec == ReceiptInit /\ [][ReceiptNext]_vars

\* ------------------------------------------------------------ stacksIndexer
\* The STX scan of the indexer and its calls of confirm-receipt. The server
\* is what answers: 401 when it does not take the key, 404 when it has no
\* record for the reference of the memo, otherwise whatever the handler
\* above can answer; any request can also fail on the network. setInterval
\* starts a poll whether or not the last one has returned, and a call may
\* take longer than the interval, so scans overlap.

\* res.data.results of the chain API, newest first
Window ==
    [ t \in WindowIds |->
        [ tx_id     |-> t,
          tx_status |-> IF t = MaxDeposits + 2 THEN "abort_by_response" ELSE "success",
          memo      |-> IF t <= MaxDeposits
                        THEN [ prefix |-> "SSWAP_OFFRAMP_", ref |-> t ]
                        ELSE [ prefix |-> "", ref |-> 0 ] ] ]

\* txs.filter(tx_status === "success" && ...)
RECURSIVE Inbound(_)
Inbound(results) ==
    IF results = <<>> THEN <<>>
    ELSE IF Head(results).tx_status = "success"
         THEN <<Head(results)>> \o Inbound(Tail(results))
         ELSE Inbound(Tail(results))

\* memo.startsWith("SSWAP_OFFRAMP_")
HasOfframpMemo(tx) == tx.memo.prefix = "SSWAP_OFFRAMP_"

\* what a POST /confirm-receipt for this tx can come back with
ConfirmAnswers(tx) ==
    {"network"} \cup
    ( IF ~keyAccepted THEN {"401"}
      ELSE IF tx.memo.ref \notin persisted THEN {"404"}
      ELSE {"200", "400", "500"} )

\* the catch of callConfirmReceipt on a 404
ForgetOn404(answer, tx) ==
    IF answer = "404" THEN processedTxIds \ {tx.tx_id} ELSE processedTxIds

\* runPoll -> checkInboundSTXTransfers up to the loop: the GET fails and the
\* scan is over, or the loop starts on the filtered list
runPoll(s, fetched) ==
    /\ idx[s].pc = "idle"
    /\ idx[s].polls < MaxPolls
    /\ idx' = [ idx EXCEPT ![s] =
                  [ pc      |-> IF fetched THEN "loop" ELSE "idle",
                    inbound |-> IF fetched THEN Inbound(Window) ELSE <<>>,
                    i       |-> IF fetched THEN 1 ELSE 0,
                    polls   |-> idx[s].polls + 1,
                    refused |-> FALSE ] ]
    /\ UNCHANGED <<processedTxIds, persisted, answers, keyAccepted>>
    /\ UNCHANGED <<engineVars, now, checkVars, orderVars, priceVars, requestVars,
                   liquidityVars, configVars, receiptVars, lateVars>>

\* the loop up to its next await: past the txs it skips, to the POST of
\* confirm-receipt or to the end of the list
RECURSIVE NextCall(_, _)
NextCall(inbound, i) ==
    IF i > Len(inbound) THEN i
    ELSE IF inbound[i].tx_id \in processedTxIds \/ ~HasOfframpMemo(inbound[i])
         THEN NextCall(inbound, i + 1)
         ELSE i

scanLoop(s) ==
    /\ idx[s].pc = "loop"
    /\ LET i == NextCall(idx[s].inbound, idx[s].i)
       IN idx' = [ idx EXCEPT
              ![s].i  = IF i > Len(idx[s].inbound) THEN 0 ELSE i,
              ![s].pc = IF i > Len(idx[s].inbound) THEN "idle" ELSE "calling",
              ![s].inbound = IF i > Len(idx[s].inbound) THEN <<>> ELSE @ ]
    /\ UNCHANGED <<processedTxIds, persisted, answers, keyAccepted>>
    /\ UNCHANGED <<engineVars, now, checkVars, orderVars, priceVars, requestVars,
                   liquidityVars, configVars, receiptVars, lateVars>>

\* the answer arrives: the rest of callConfirmReceipt, then the statement
\* after the await in the loop
callConfirmReceipt(s, answer) ==
    /\ idx[s].pc = "calling"
    /\ LET tx == idx[s].inbound[idx[s].i]
       IN /\ answer \in ConfirmAnswers(tx)
          /\ processedTxIds' = ForgetOn404(answer, tx) \cup {tx.tx_id}
          /\ answers' = [ answers EXCEPT ![tx.tx_id] = answer ]
    /\ idx' = [ idx EXCEPT
                  ![s].pc      = "loop",
                  ![s].i       = @ + 1,
                  ![s].refused = @ \/ answer = "401" ]
    /\ UNCHANGED <<persisted, keyAccepted>>
    /\ UNCHANGED <<engineVars, now, checkVars, orderVars, priceVars, requestVars,
                   liquidityVars, configVars, receiptVars, lateVars>>

\* POST /initialize stores the record of a reference
recordPersisted(ref) ==
    /\ ref \notin persisted
    /\ persisted' = persisted \cup {ref}
    /\ UNCHANGED <<processedTxIds, idx, answers, keyAccepted>>
    /\ UNCHANGED <<engineVars, now, checkVars, orderVars, priceVars, requestVars,
                   liquidityVars, configVars, receiptVars, lateVars>>

IndexerInit ==
    /\ EngineInit
    /\ now = 1
    /\ chk = NoCheck
    /\ OrderIdle
    /\ PriceIdle(1)
    /\ RequestIdle
    /\ LiquidityIdle
    /\ ReceiptIdle
    /\ LateIdle
    /\ ConfigDefault
    /\ processedTxIds = {}
    /\ idx = [ s \in 1..NumScans |-> IdleScan ]
    /\ persisted = {}
    /\ answers = [ t \in WindowIds |-> "none" ]
    /\ keyAccepted \in BOOLEAN

IndexerNext ==
    \/ \E s \in 1..NumScans, fetched \in BOOLEAN : runPoll(s, fetched)
    \/ \E s \in 1..NumScans : scanLoop(s)
    \/ \E s \in 1..NumScans, answer \in {"200", "400", "401", "404", "500", "network"} :
          callConfirmReceipt(s, answer)
    \/ \E ref \in 1..MaxDeposits : recordPersisted(ref)

IndexerSpec == IndexerInit /\ [][IndexerNext]_vars

\* ------------------------------------------------- stacksIndexer, the memo
\* The memo test of both scans on one chain transaction. A string is a
\* sequence of characters. The text the chain API gives for a memo is a
\* sequence of items: the two characters "0x" as one item, a pair of hex
\* digits as the byte it encodes, any other character as itself.
OfframpPrefix ==
    <<"S", "S", "W", "A", "P", "_", "O", "F", "F", "R", "A", "M", "P", "_">>

\* a reference generateReference can return, shortened to one character for
\* each of its two parts
Reference == OfframpPrefix \o <<"K", "_", "7">>

\* the byte 0
Nul == "\\0"

RECURSIVE Nuls(_)
Nuls(n) == IF n = 0 THEN <<>> ELSE <<Nul>> \o Nuls(n - 1)

\* the bytes of the memo on chain
MemoBytes ==
    { <<>>, Nuls(2), <<"h", "i">>, <<"h", "i">> \o Nuls(1),
      Reference, Reference \o Nuls(1), Reference \o Nuls(2), Reference \o Nuls(3),
      SubSeq(Reference, 1, Len(OfframpPrefix) - 1),
      <<"s">> \o Tail(Reference),
      <<"x">> \o Reference,
      <<" ">> \o Reference \o <<" ">> \o Nuls(1),
      Nuls(1) \o Reference,
      OfframpPrefix }

HexByte(b) == [ kind |-> "byte", c |-> b ]
Char(ch) == [ kind |-> "char", c |-> ch ]
Ox == [ kind |-> "0x", c |-> "0x" ]

\* the bytes in hex
Hex(bytes) == [ k \in 1..Len(bytes) |-> HexByte(bytes[k]) ]

\* the text of the memo in the answer of the chain API. token_transfer.memo
\* is 0x and the hex of the buffer. The repr of the fourth argument of a
\* SIP-010 transfer, (optional (buff 34)), is (some 0x...) or none; that of
\* a (buff 34) argument is 0x and the hex.
MemoTexts(path, bytes) ==
    IF path = "STX"
    THEN { <<Ox>> \o Hex(bytes), <<>> }
    ELSE { <<Ox>> \o Hex(bytes),
           <<Char("("), Char("s"), Char("o"), Char("m"), Char("e"), Char(" "), Ox>>
               \o Hex(bytes) \o <<Char(")")>>,
           <<Char("n"), Char("o"), Char("n"), Char("e")>>,
           <<>> }

\* .replace(/^0x/, "")
StripOx(text) == IF text # <<>> /\ Head(text) = Ox THEN Tail(text) ELSE text

\* Buffer.from(text, "hex"): the bytes of the pairs of hex digits up to the
\* first character that is not one
RECURSIVE BufferFromHex(_)
BufferFromHex(text) ==
    IF text = <<>> \/ Head(text).kind # "byte" THEN <<>>
    ELSE <<Head(text).c>> \o BufferFromHex(Tail(text))

\* .replace(/\0/g, "")
RECURSIVE StripNuls(_)
StripNuls(str) ==
    IF str = <<>> THEN <<>>
    ELSE IF Head(str) = Nul THEN StripNuls(Tail(str))
    ELSE <<Head(str)>> \o StripNuls(Tail(str))

\* .trim()
RECURSIVE TrimStart(_)
TrimStart(str) ==
    IF str # <<>> /\ Head(str) = " " THEN TrimStart(Tail(str)) ELSE str

RECURSIVE TrimEnd(_)
TrimEnd(str) ==
    IF str # <<>> /\ str[Len(str)] = " "
    THEN TrimEnd(SubSeq(str, 1, Len(str) - 1))
    ELSE str

trim(str) == TrimEnd(TrimStart(str))

decodeMemo(hexMemo) ==
    IF hexMemo = <<>> THEN <<>>
    ELSE trim(StripNuls(BufferFromHex(StripOx(hexMemo))))

\* str.startsWith(prefix)
startsWith(str, prefix) ==
    Len(str) >= Len(prefix) /\ SubSeq(str, 1, Len(prefix)) = prefix

\* const memo = ... of either scan
ScanMemo(path, raw) ==
    IF path = "STX" THEN decodeMemo(raw)
    ELSE IF raw # <<>> THEN decodeMemo(StripOx(raw)) ELSE <<>>

\* one transaction of the loop of a scan, from the memo to the call of
\* confirm-receipt or the continue
scanMemo ==
    /\ ~mm.done
    /\ mm.path # "none"
    /\ LET memo == ScanMemo(mm.path, mm.raw)
       IN mm' = [ mm EXCEPT
              !.done   = TRUE,
              !.memo   = memo,
              !.called = IF startsWith(memo, OfframpPrefix)
                         THEN << [ transactionReference |-> memo ] >>
                         ELSE <<>> ]
    /\ UNCHANGED <<engineVars, now, checkVars, orderVars, priceVars, requestVars,
                   liquidityVars, configVars, receiptVars, indexerVars, onrampVars>>

MemoInit ==
    /\ EngineInit
    /\ now = 1
    /\ chk = NoCheck
    /\ OrderIdle
    /\ PriceIdle(1)
    /\ RequestIdle
    /\ LiquidityIdle
    /\ ReceiptIdle
    /\ IndexerIdle
    /\ OnrampIdle
    /\ ConfigDefault
    /\ \E path \in {"STX", "USDC"}, bytes \in MemoBytes :
         \E raw \in MemoTexts(path, bytes) :
            mm = [ NoMemo EXCEPT !.path = path, !.raw = raw, !.bytes = bytes ]

MemoNext == scanMemo

MemoSpec == MemoInit /\ [][MemoNext]_vars

\* ----------------------------------------------------- handleMonnifyWebhook
\* The onramp record of one payment reference and the webhooks Monnify
\* delivers for it, each with a valid signature. A handler works on the
\* document findOne gave it; save() writes the status when the handler
\* changed it. onr.status is the stored status, mw[h].status that of the
\* handler's document.

\* what a delivery reports: a payment of the expected amount, a payment of
\* another amount, a payment that did not go through
Deliveries == {"PAID", "PAID other amount", "FAILED"}

\* steps 4 to 8 on the document: the response that ends the handler, or the
\* status to save next
MonnifyVerdict(status, delivery) ==
    IF status = "confirmed" THEN "Already processed"
    ELSE IF delivery = "PAID" THEN "processing"
    ELSE "failed"

\* save(): the stored status after it
SaveStatus(stored, loaded, assigned) ==
    IF assigned # loaded THEN assigned ELSE stored

\* a delivery arrives: findOne and the tests on the record
monnifyRead(h, delivery) ==
    /\ FirstFree(h, {g \in MonnifyProcs : mw[g].pc = "idle"})
    /\ onr.deliveries < MaxDeliveries
    /\ onr' = [ onr EXCEPT !.deliveries = @ + 1 ]
    /\ LET verdict == MonnifyVerdict(onr.status, delivery)
       IN mw' = [ mw EXCEPT ![h] =
            IF verdict = "Already processed" THEN IdleMonnify
            ELSE [ pc     |-> IF verdict = "processing" THEN "save_processing"
                              ELSE "save_failed",
                   status |-> onr.status,
                   sent   |-> FALSE ] ]
    /\ UNCHANGED sends
    /\ UNCHANGED <<engineVars, now, checkVars, orderVars, priceVars, requestVars,
                   liquidityVars, configVars, receiptVars, indexerVars, memoVars>>

\* tx.status = "failed"; save; respond (a payment that is not PAID, an
\* amount that does not match, a token transfer that threw)
monnifySaveFailed(h) ==
    /\ mw[h].pc = "save_failed"
    /\ onr' = [ onr EXCEPT !.status = SaveStatus(@, mw[h].status, "failed") ]
    /\ mw' = [ mw EXCEPT ![h] = IdleMonnify ]
    /\ UNCHANGED sends
    /\ UNCHANGED <<engineVars, now, checkVars, orderVars, priceVars, requestVars,
                   liquidityVars, configVars, receiptVars, indexerVars, memoVars>>

\* tx.status = "processing"; save
monnifySaveProcessing(h) ==
    /\ mw[h].pc = "save_processing"
    /\ onr' = [ onr EXCEPT !.status = SaveStatus(@, mw[h].status, "processing") ]
    /\ mw' = [ mw EXCEPT ![h].pc = "send", ![h].status = "processing" ]
    /\ UNCHANGED sends
    /\ UNCHANGED <<engineVars, now, checkVars, orderVars, priceVars, requestVars,
                   liquidityVars, configVars, receiptVars, indexerVars, memoVars>>

\* await stacksTransferService.sendTokens(...): it returns a tx id or throws
sendTokens(h, ok) ==
    /\ mw[h].pc = "send"
    /\ sends' = sends + 1
    /\ mw' = [ mw EXCEPT ![h].pc = IF ok THEN "save_confirmed" ELSE "save_failed",
                         ![h].sent = TRUE ]
    /\ UNCHANGED onr
    /\ UNCHANGED <<engineVars, now, checkVars, orderVars, priceVars, requestVars,
                   liquidityVars, configVars, receiptVars, indexerVars, memoVars>>

\* tx.status = "confirmed", txId, confirmedAt; save; respond
monnifySaveConfirmed(h) ==
    /\ mw[h].pc = "save_confirmed"
    /\ onr' = [ onr EXCEPT !.status = SaveStatus(@, mw[h].status, "confirmed") ]
    /\ mw' = [ mw EXCEPT ![h] = IdleMonnify ]
    /\ UNCHANGED sends
    /\ UNCHANGED <<engineVars, now, checkVars, orderVars, priceVars, requestVars,
                   liquidityVars, configVars, receiptVars, indexerVars, memoVars>>

OnrampInit ==
    /\ EngineInit
    /\ now = 1
    /\ chk = NoCheck
    /\ OrderIdle
    /\ PriceIdle(1)
    /\ ExtraIdle
    /\ ConfigDefault

OnrampNext ==
    \/ \E h \in MonnifyProcs, delivery \in Deliveries : monnifyRead(h, delivery)
    \/ \E h \in MonnifyProcs : monnifySaveFailed(h)
    \/ \E h \in MonnifyProcs : monnifySaveProcessing(h)
    \/ \E h \in MonnifyProcs, ok \in BOOLEAN : sendTokens(h, ok)
    \/ \E h \in MonnifyProcs : monnifySaveConfirmed(h)

OnrampSpec == OnrampInit /\ [][OnrampNext]_vars

\* ------------------------------------------------------------ priceService
\* cache.STX && cache.USDC
HasBoth(c) == c.STX # NoPrice /\ c.USDC # NoPrice

\* cacheAgeMs: Infinity without lastFetched, which the callers compare with a
\* limit
AgeBelow(c, t, limit) == c.lastFetched # Never /\ t - c.lastFetched < limit

hasFreshCache(c, t) == HasBoth(c) /\ AgeBelow(c, t, CACHE_TTL_MS)

hasUsableStaleCache(c, t) == HasBoth(c) /\ AgeBelow(c, t, STALE_TTL_MS)

\* priceUSD * usdToNgn, in kobo
InNaira(usd, usdToNgn) == (usd * usdToNgn) \div 100

buildEmergencyResults(t) ==
    [ STX  |-> [ priceUSD  |-> EMERGENCY_STX_USD,
                 priceNGN  |-> InNaira(EMERGENCY_STX_USD, EMERGENCY_USD_NGN),
                 usdToNgn  |-> EMERGENCY_USD_NGN,
                 fetchedAt |-> t ],
      USDC |-> [ priceUSD  |-> EMERGENCY_USDC_USD,
                 priceNGN  |-> InNaira(EMERGENCY_USDC_USD, EMERGENCY_USD_NGN),
                 usdToNgn  |-> EMERGENCY_USD_NGN,
                 fetchedAt |-> t ] ]

\* bodies of the upstream's 200 answers (0: the field is missing): a complete
\* one, one without any NGN price, one without the STX entry
NoBody == [ stxUsd |-> 0, stxNgn |-> 0, usdcUsd |-> 0, usdcNgn |-> 0,
            tetherNgn |-> 0 ]
Bodies ==
    { [ stxUsd |-> 120, stxNgn |-> 190000, usdcUsd |-> 100, usdcNgn |-> 158000,
        tetherNgn |-> 158300 ],
      [ stxUsd |-> 120, stxNgn |-> 0, usdcUsd |-> 100, usdcNgn |-> 0,
        tetherNgn |-> 0 ],
      [ stxUsd |-> 0, stxNgn |-> 0, usdcUsd |-> 100, usdcNgn |-> 158000,
        tetherNgn |-> 158300 ] }

\* what a GET to the upstream ends with: 200 and a body, 429, another HTTP
\* error, or no response at all (status 0)
Outcomes ==
    { [ status |-> 200, body |-> b ] : b \in Bodies }
        \cup { [ status |-> st, body |-> NoBody ] : st \in {429, 503, 0} }

\* fetchFromCoinGecko, after the GET: one token of the results
TokenPrice(usd, ngn, usdToNgn, t) ==
    [ priceUSD  |-> usd,
      priceNGN  |-> IF ngn # 0 THEN ngn ELSE InNaira(usd, usdToNgn),
      usdToNgn  |-> usdToNgn,
      fetchedAt |-> t ]

\* fetchFromCoinGecko, after the GET: the results, or the throw (ok FALSE)
\* for a body without STX or USDC
fetchFromCoinGecko(body, t) ==
    LET usdToNgn == IF body.tetherNgn # 0 THEN body.tetherNgn
                    ELSE IF body.usdcNgn # 0 THEN body.usdcNgn
                    ELSE EMERGENCY_USD_NGN
    IN [ ok   |-> body.stxUsd # 0 /\ body.usdcUsd # 0,
         STX  |-> TokenPrice(body.stxUsd, body.stxNgn, usdToNgn, t),
         USDC |-> TokenPrice(body.usdcUsd, body.usdcNgn, usdToNgn, t) ]

\* whether refreshPrices takes its try block to the end
Fetched(outcome) ==
    outcome.status = 200 /\ fetchFromCoinGecko(outcome.body, 0).ok

RECURSIVE Pow2(_)
Pow2(n) == IF n <= 0 THEN 1 ELSE 2 * Pow2(n - 1)

Min(a, b) == IF a <= b THEN a ELSE b

\* a delay that doubles from the first failure on
BackoffDelayFromTwo(failures) ==
    Min(BASE_BACKOFF_MS * Pow2(failures), MAX_BACKOFF_MS)

\* the delay after the failures-th failure in a row, a 429
BackoffDelay(failures) ==
    Min(BASE_BACKOFF_MS * Pow2(failures - 1), MAX_BACKOFF_MS)

\* refreshPrices inside the backoff window: stale cache, else emergency rates
BackoffResult(c, t) ==
    IF hasUsableStaleCache(c, t) THEN [ STX |-> c.STX, USDC |-> c.USDC ]
    ELSE buildEmergencyResults(t)

\* the catch block as it would be without its fallback to emergency rates
FailureResultNoFallback(c, t) == [ STX |-> c.STX, USDC |-> c.USDC ]

\* the catch block of refreshPrices: what it returns
FailureResult(c, t) ==
    IF hasUsableStaleCache(c, t) THEN [ STX |-> c.STX, USDC |-> c.USDC ]
    ELSE buildEmergencyResults(t)

\* the catch block of refreshPrices: the cache it leaves
FailureCache(c, t) ==
    IF hasUsableStaleCache(c, t) THEN c
    ELSE [ STX         |-> buildEmergencyResults(t).STX,
           USDC        |-> buildEmergencyResults(t).USDC,
           lastFetched |-> t - CACHE_TTL_MS + EMERGENCY_FRESH_MS ]

\* what refreshPrices returns when its GET ended with outcome at instant t
RefreshResult(outcome, c, t) ==
    IF Fetched(outcome)
    THEN [ STX  |-> fetchFromCoinGecko(outcome.body, t).STX,
           USDC |-> fetchFromCoinGecko(outcome.body, t).USDC ]
    ELSE FailureResult(c, t)

\* the answer a caller gets
Answer(by, result, fromCache) ==
    [ by |-> by, STX |-> result.STX, USDC |-> result.USDC,
      fromCache |-> fromCache ]

InFlight == flights["getCurrentPrices"] + flights["tick"] + flights["forceRefresh"]

\* getCurrentPrices: fresh cache; or the shared promise; or refreshPrices,
\* which answers at once inside the backoff window and else sends the GET
getCurrentPrices ==
    /\ IF hasFreshCache(cache, now)
       THEN /\ last' = Answer("getCurrentPrices", cache, TRUE)
            /\ UNCHANGED <<inFlightFetch, flights, waiting>>
       ELSE IF inFlightFetch
       THEN /\ waiting < NumCallers
            /\ waiting' = waiting + 1
            /\ UNCHANGED <<inFlightFetch, flights, last>>
       ELSE IF now < backoffUntil
       THEN /\ last' = Answer("getCurrentPrices", BackoffResult(cache, now), FALSE)
            /\ UNCHANGED <<inFlightFetch, flights, waiting>>
       ELSE /\ inFlightFetch' = TRUE
            /\ flights' = [flights EXCEPT !["getCurrentPrices"] = @ + 1]
            /\ waiting' = 1
            /\ UNCHANGED last
    /\ UNCHANGED <<cache, backoffUntil, consecutiveFailures, windowEnd, fetchLog,
                   nextTick, ticks, now>>
    /\ UNCHANGED <<engineVars, checkVars, orderVars, extraVars>>

\* the callback of setInterval in startPriceRefresh: refreshPrices, called
\* directly, unless the cache is fresh
backgroundTick ==
    /\ now >= nextTick
    /\ nextTick' = now + CACHE_TTL_MS
    /\ flights' = IF hasFreshCache(cache, now) \/ now < backoffUntil
                  THEN flights
                  ELSE [flights EXCEPT !["tick"] = @ + 1]
    /\ UNCHANGED <<cache, backoffUntil, consecutiveFailures, inFlightFetch,
                   waiting, last, windowEnd, fetchLog, ticks, now>>
    /\ UNCHANGED <<engineVars, checkVars, orderVars, extraVars>>

\* POST /api/prices/refresh: refreshPrices, called directly
forceRefresh ==
    /\ flights["forceRefresh"] < NumForce
    /\ IF now < backoffUntil
       THEN /\ last' = Answer("forceRefresh", BackoffResult(cache, now), FALSE)
            /\ UNCHANGED flights
       ELSE /\ flights' = [flights EXCEPT !["forceRefresh"] = @ + 1]
            /\ UNCHANGED last
    /\ UNCHANGED <<cache, backoffUntil, consecutiveFailures, inFlightFetch,
                   waiting, windowEnd, fetchLog, nextTick, ticks, now>>
    /\ UNCHANGED <<engineVars, checkVars, orderVars, extraVars>>

\* the GET of one refreshPrices call ends: the rest of its try block or its
\* catch block, then the continuations of those who await it (finally resets
\* inFlightFetch; every waiting getCurrentPrices returns the result)
settle(owner, outcome) ==
    /\ flights[owner] > 0
    /\ Fetched(outcome) \/ consecutiveFailures < MaxFailures
    /\ flights' = [flights EXCEPT ![owner] = @ - 1]
    /\ IF Fetched(outcome)
       THEN /\ consecutiveFailures' = 0
            /\ backoffUntil' = 0
            /\ cache' = [ STX  |-> fetchFromCoinGecko(outcome.body, now).STX,
                          USDC |-> fetchFromCoinGecko(outcome.body, now).USDC,
                          lastFetched |-> now ]
            /\ UNCHANGED windowEnd
            /\ fetchLog' = [ succeeded |-> TRUE, failed |-> 0, limited |-> 0,
                             status |-> outcome.status ]
       ELSE /\ consecutiveFailures' = consecutiveFailures + 1
            /\ backoffUntil' = IF outcome.status = 429
                               THEN now + BackoffDelay(consecutiveFailures + 1)
                               ELSE backoffUntil
            /\ windowEnd' = IF outcome.status = 429
                            THEN now + BackoffDelay(consecutiveFailures + 1)
                            ELSE windowEnd
            /\ fetchLog' = [ fetchLog EXCEPT
                               !.failed  = @ + 1,
                               !.limited = IF outcome.status = 429 THEN @ + 1 ELSE @,
                               !.status  = IF outcome.status = 429 THEN 429 ELSE 0 ]
            /\ cache' = FailureCache(cache, now)
    /\ IF owner = "getCurrentPrices"
       THEN /\ inFlightFetch' = FALSE
            /\ waiting' = 0
            /\ last' = Answer(owner, RefreshResult(outcome, cache, now), FALSE)
       ELSE /\ UNCHANGED <<inFlightFetch, waiting>>
            /\ last' = IF owner = "forceRefresh"
                       THEN Answer(owner, RefreshResult(outcome, cache, now), FALSE)
                       ELSE last
    /\ UNCHANGED <<nextTick, ticks, now>>
    /\ UNCHANGED <<engineVars, checkVars, orderVars, extraVars>>

\* the steps the clock makes: a backoff unit, a fresh period, a stale period
TickSteps == {BASE_BACKOFF_MS, CACHE_TTL_MS, STALE_TTL_MS}

\* time passes; no GET outlasts its timeout
priceClock(dt) ==
    /\ ticks < MaxTicks
    /\ dt > FETCH_TIMEOUT_MS => InFlight = 0
    /\ now' = now + dt
    /\ ticks' = ticks + 1
    /\ UNCHANGED <<cache, backoffUntil, consecutiveFailures, inFlightFetch,
                   flights, waiting, last, windowEnd, fetchLog,
                   nextTick>>
    /\ UNCHANGED <<engineVars, checkVars, orderVars, extraVars>>

PriceInit ==
    /\ EngineInit
    /\ now = CACHE_TTL_MS
    /\ chk = NoCheck
    /\ OrderIdle
    /\ PriceIdle(CACHE_TTL_MS)
    /\ ExtraIdle
    /\ ConfigDefault

PriceNext ==
    \/ getCurrentPrices
    \/ backgroundTick
    \/ forceRefresh
    \/ \E owner \in Owners, outcome \in Outcomes : settle(owner, outcome)
    \/ \E dt \in TickSteps : priceClock(dt)

PriceSpec == PriceInit /\ [][PriceNext]_vars

\* ---------------------------------------------------------------- claims
\* a task that has written status processing and has not finished
HoldsProcessing(t) == t.pc \in {"transfer", "save_result"}

\* C1: every record whose status is confirmed has had exactly one successful
\* InitiateTransfer call made with its reference
C1_ConfirmedExactlyOnePayout ==
    \A r \in DOMAIN db : db[r].status = "confirmed" => succ[r] = 1

\* C2: of the confirm-receipt calls that execute at the same time for one
\* reference, at most one gets as far as invoking InitiateTransfer
C2_OneConfirmReceiptInvokes ==
    \A r \in Refs :
        Cardinality({p \in ConfirmProcs :
                        cr[p].ref = r /\ cr[p].pc = "save_result"}) <= 1

\* C3: a watcher and a confirm-receipt call for the same reference never both
\* perform the transition to processing: one of them sees the other's update
\* and exits before writing
C3_WatcherAndIndexerOneWinner ==
    \A p \in ConfirmProcs, w \in Watchers :
        ~(cr[p].ref = wt[w].ref /\ HoldsProcessing(cr[p]) /\ HoldsProcessing(wt[w]))

\* the edges of the status machine
AllowedEdges ==
    { <<"pending", "processing">>, <<"pending", "failed">>,
      <<"processing", "settling">>, <<"processing", "failed">>,
      <<"settling", "confirmed">>, <<"settling", "failed">> }

\* C4: every change of a record's status is an edge of the status machine
C4_OnlyAllowedEdges ==
    [][\A r \in DOMAIN db :
          db'[r].status # db[r].status =>
              <<db[r].status, db'[r].status>> \in AllowedEdges]_vars

\* C5: a confirm-receipt call that arrives after a successful InitiateTransfer
\* for its reference is answered from the status check (already processed, or
\* 400) and never reaches the provider
C5_ReplayMakesNoCall ==
    \A p \in ConfirmProcs :
        cr[p].after => cr[p].pc = "done" /\ cr[p].resp \in {"already", "400"}

\* a replay was answered after the one successful payout of its reference
C5_Witness ==
    \E p \in ConfirmProcs :
        /\ cr[p].after /\ cr[p].pc = "done"
        /\ calls[cr[p].ref] = 1 /\ succ[cr[p].ref] = 1

\* C6: a transfer.completed delivery that saves when the record is already
\* confirmed leaves the record (status, confirmedAt, meta) as it is
C6_CompletedReplayChangesNothing ==
    [][\A h \in WebhookProcs :
          ( /\ wh[h].pc = "save" /\ wh'[h].pc = "done"
            /\ wh[h].event = "transfer.completed"
            /\ db[wh[h].ref].status = "confirmed" )
          => db'[wh[h].ref] = db[wh[h].ref]]_vars

\* C7: when InitiateTransfer returned success, the task's next save leaves the
\* record settling with the provider's transfer id, and confirm-receipt
\* answers with the success response
C7_SuccessPersistsSettling ==
    [][/\ \A p \in ConfirmProcs :
            (cr[p].pc = "save_result" /\ cr'[p].pc = "done" /\ cr[p].res.ok)
            => /\ db'[cr[p].ref].status = "settling"
               /\ db'[cr[p].ref].meta.lencoTransferId = cr[p].res.transferId
               /\ cr'[p].resp = "initiated"
       /\ \A w \in Watchers :
            (wt[w].pc = "save_result" /\ wt'[w].pc = "idle" /\ wt[w].res.ok)
            => /\ db'[wt[w].ref].status = "settling"
               /\ db'[wt[w].ref].meta.lencoTransferId = wt[w].res.transferId]_vars

\* what C8 expects of the record after a failed InitiateTransfer
FailedForManualSettlement(rec) ==
    /\ rec.status = "failed"
    /\ rec.meta.requiresManualSettlement
    /\ rec.meta.failureReason = "Lenco failed: provider"
    /\ rec.meta.lencoTransferId = Unset

\* C8: when InitiateTransfer failed, the task's next save leaves the record
\* failed, flagged for manual settlement, with the provider's message and no
\* transfer id, and confirm-receipt answers 500
C8_FailurePersistsFailed ==
    [][/\ \A p \in ConfirmProcs :
            (cr[p].pc = "save_result" /\ cr'[p].pc = "done" /\ ~cr[p].res.ok)
            => /\ FailedForManualSettlement(db'[cr[p].ref])
               /\ cr'[p].resp = "500"
       /\ \A w \in Watchers :
            (wt[w].pc = "save_result" /\ wt'[w].pc = "idle" /\ ~wt[w].res.ok)
            => FailedForManualSettlement(db'[wt[w].ref])]_vars

\* C9: InitiateTransfer is invoked at most once per reference, failed
\* invocations included
C9_AtMostOneInvocation ==
    \A r \in Refs : calls[r] <= 1

\* C10: a record whose status is processing, settling or confirmed has its
\* chain transaction id set
C10_ChainTxIdSet ==
    \A r \in DOMAIN db :
        db[r].status \in {"processing", "settling", "confirmed"}
            => db[r].txId # Unset

\* C11: a record whose status is settling or confirmed has the provider's
\* transfer id stored in meta.lencoTransferId
C11_PayoutIdStored ==
    \A r \in DOMAIN db :
        db[r].status \in {"settling", "confirmed"}
            => db[r].meta.lencoTransferId # Unset

\* the status C12 lets a webhook event give a settling record
WebhookTarget(event) ==
    IF event = "transfer.completed" THEN "confirmed" ELSE "failed"

\* C12: the save of the webhook handler changes the record only when its
\* status is settling (transfer.completed to confirmed, transfer.failed and
\* transfer.reversed to failed); a record in any other status is left as it is
C12_WebhookOnlyFromSettling ==
    [][\A h \in WebhookProcs :
          (wh[h].pc = "save" /\ wh'[h].pc = "done")
          => IF db[wh[h].ref].status = "settling"
             THEN db'[wh[h].ref].status = WebhookTarget(wh[h].event)
             ELSE db'[wh[h].ref] = db[wh[h].ref]]_vars

\* the step is the save that follows the payout call of a task working on r
SaveAfterPayout(r) ==
    \/ \E p \in ConfirmProcs :
          cr[p].ref = r /\ cr[p].pc = "save_result" /\ cr'[p].pc = "done"
    \/ \E w \in Watchers :
          wt[w].ref = r /\ wt[w].pc = "save_result" /\ wt'[w].pc = "idle"

\* C13: a record leaves processing only in the save that follows the payout
\* call of the task that moved it there; no webhook delivery, watcher run or
\* other confirm-receipt call changes the status of a record in processing
C13_OnlyWinnerLeavesProcessing ==
    [][\A r \in DOMAIN db :
          (db[r].status = "processing" /\ db'[r].status # "processing")
          => SaveAfterPayout(r)]_vars

C15_ReferencesUnique ==
    \A rec \in BagToSet(txs) :
        /\ CopiesIn(rec, txs) = 1
        /\ \A other \in BagToSet(txs) :
              other # rec => other.paymentReference # rec.paymentReference

\* C20: a request answered 201 added one record, whose ngnAmount is the
\* whole number floor(tokenAmount * rate - fee) and is positive; a request
\* for which that value is not positive is answered with an error; a request
\* answered with an error added no record
C20_NgnAmountWholePositive ==
    [][ord'.n # ord.n =>
          LET v == calculateOfframpQuote(ord'.amount, ord'.rate)
          IN /\ v <= 0 => ord'.resp # "201"
             /\ IF ord'.resp = "201"
                THEN \E rec \in BagToSet(txs') :
                        /\ txs' = txs (+) SetToBag({rec})
                        /\ rec.tokenAmount = ord'.amount
                        /\ rec.ngnAmount = v
                        /\ rec.ngnAmount \in Nat \ {0}
                        /\ v * AmountScale * RateScale
                              <= ord'.amount * ord'.rate
                                   - OFFRAMP_FLAT_FEE_NGN * AmountScale * RateScale
                        /\ (v + 1) * AmountScale * RateScale
                              > ord'.amount * ord'.rate
                                   - OFFRAMP_FLAT_FEE_NGN * AmountScale * RateScale
                ELSE txs' = txs]_vars

\* an answer with both tokens set and a positive price in naira for each
WellFormed(answer) ==
    /\ answer.STX # NoPrice /\ answer.STX.priceNGN > 0
    /\ answer.USDC # NoPrice /\ answer.USDC.priceNGN > 0

\* C16: every answer of getCurrentPrices, whatever the cache, the backoff and
\* the upstream's answer, has both tokens set with a positive priceNGN
C16_AlwaysAPrice ==
    last.by = "getCurrentPrices" => WellFormed(last)

\* getCurrentPrices answered with the emergency rates after the upstream
\* failed as often in a row as it can
C16_Witness ==
    /\ last.by = "getCurrentPrices"
    /\ consecutiveFailures = MaxFailures
    /\ last.STX.priceUSD = EMERGENCY_STX_USD
    /\ last.STX.priceNGN = InNaira(EMERGENCY_STX_USD, EMERGENCY_USD_NGN)

\* the step is the failure of the GET that getCurrentPrices started
GetFetchFails ==
    /\ flights'["getCurrentPrices"] < flights["getCurrentPrices"]
    /\ consecutiveFailures' > consecutiveFailures

\* C17: when the GET of getCurrentPrices fails and the cache is at least
\* CACHE_TTL_MS but less than STALE_TTL_MS old, the answer is the cached
\* snapshot with fromCache true; when the cache is STALE_TTL_MS old or
\* older, the answer is the emergency rates, usdToNgn = EMERGENCY_USD_NGN
C17_StaleThenEmergency ==
    [][GetFetchFails =>
          /\ ( HasBoth(cache) /\ ~AgeBelow(cache, now, CACHE_TTL_MS)
                 /\ AgeBelow(cache, now, STALE_TTL_MS) )
             => last' = Answer("getCurrentPrices", cache, TRUE)
          /\ ( HasBoth(cache) /\ ~AgeBelow(cache, now, STALE_TTL_MS) )
             => /\ last' = Answer("getCurrentPrices",
                                  buildEmergencyResults(now), last'.fromCache)
                /\ last'.STX.usdToNgn = EMERGENCY_USD_NGN]_vars

\* C18: at most one upstream request is awaiting its answer, whoever
\* started it (getCurrentPrices, the refresh interval, the forced refresh)
C18_OneUpstreamRequest ==
    InFlight <= 1

C20_Witness ==
    /\ ord.resp = "201"
    /\ (ord.amount * ord.rate) % (AmountScale * RateScale) # 0
    /\ \E rec \in BagToSet(txs) : rec.tokenAmount = ord.amount

\* the quote of the request of the sweep
IniQuote == calculateOfframpQuote(ini.req.tokenAmount, ini.env.rate)

\* the request of the sweep passes every test before the liquidity guard, in
\* the words of the specification: a token, an amount within the limits, an
\* address in capitals of 20 to 50 characters after SP, SM or ST, ten digits,
\* a bank account that resolves, a deposit address
IniPreconditions ==
    /\ toUpperCase(ini.req.token) \in {"STX", "USDC"}
    /\ ini.req.tokenAmount >= MIN_TOKEN_AMOUNT * AmountScale
    /\ ini.req.tokenAmount <= MAX_TOKEN_AMOUNT * AmountScale
    /\ ini.req.stacksAddress.prefix \in {"SP", "SM", "ST"}
    /\ ini.req.stacksAddress.body = "upper"
    /\ ini.req.stacksAddress.len \in 20..50
    /\ ini.req.accountNumber = [ len |-> 10, digits |-> TRUE ]
    /\ ini.env.bankOk
    /\ ini.env.deposit

\* the balance is known and covers the quote and the cushion
IniGuardPasses ==
    /\ ini.env.balance.known
    /\ ini.env.balance.kobo >=
           (IniQuote + LENCO_MIN_BALANCE_NGN) * KoboPerNaira

\* max(0, floor(balance - buffer)) of the balance of the sweep, naira
IniMaxOrder ==
    LET over == ini.env.balance.kobo - LENCO_MIN_BALANCE_NGN * KoboPerNaira
    IN  IF over < 0 THEN 0 ELSE over \div KoboPerNaira

\* C21: POST /initialize creates a record only when the balance is known and
\* is at least the quote plus the cushion, and a request that passes every
\* earlier test is accepted exactly then; when the balance is unknown or
\* below that, the request is answered 503 with code INSUFFICIENT_LIQUIDITY
\* and, the balance known, with maxOrderNGN = max(0, floor(balance - cushion)),
\* and no record is created.
C21_LiquidityGuard ==
    ini.done =>
      /\ ini.resp.created => IniGuardPasses
      /\ (IniPreconditions /\ IniQuote > 0) =>
            IF IniGuardPasses
            THEN ini.resp.created /\ ini.resp.status = "201"
            ELSE /\ ~ini.resp.created
                 /\ ini.resp.status = "503"
                 /\ ini.resp.code = "INSUFFICIENT_LIQUIDITY"
                 /\ ini.env.balance.known =>
                        ini.resp.maxOrderNGN = IniMaxOrder

\* a request that passed every earlier test was rejected by the guard with a
\* known balance just below the quote plus the cushion, and was told the
\* largest order the balance allows
C21_Witness ==
    /\ ini.done
    /\ IniPreconditions
    /\ ini.env.balance.known
    /\ ini.env.balance.kobo =
           (IniQuote + LENCO_MIN_BALANCE_NGN) * KoboPerNaira - 1
    /\ ini.resp.code = "INSUFFICIENT_LIQUIDITY"
    /\ ini.resp.maxOrderNGN = IniQuote - 1

\* C22: POST /initialize creates a record only when every precondition
\* holds (token STX or USDC, MIN <= tokenAmount <= MAX, an address matching
\* ^(SP|SM|ST)[0-9A-Z]{20,50}$, an account number of ten digits, a bank
\* account that resolves, a deposit address), and answers with an error and
\* creates nothing otherwise; a created record is pending.
C22_RejectsUnlessPreconditions ==
    ini.done =>
      /\ ini.resp.created =>
            /\ IniPreconditions
            /\ CreatedRecord(ini.req, ini.env, now, 1).status = "pending"
      /\ ~IniPreconditions =>
            ~ini.resp.created /\ ini.resp.status \in {"400", "500", "503"}


\* C23: a successful initiateLencoTransfer returns with the balance cache
\* cleared, and a liquidity check that starts after a payout was initiated
\* does not approve an order on a balance the provider reported before it
\* debited that payout.
C23_NoApprovalOnOldBalance ==
    /\ [][returned' > returned => ~lencoBalanceCache'.balance.known]_vars
    /\ [](lastCheck.done /\ lastCheck.ok => lastCheck.seen >= lastCheck.after)

\* C24: a webhook whose x-lenco-signature header is missing or is not the
\* HMAC of the body under LENCO_WEBHOOK_SECRET is answered 401, and its
\* handler changes no record.
C24_UnverifiedWebhookRejected ==
    /\ [](\A h \in WebhookProcs :
            (wh[h].pc \in {"save", "done"} /\ ~wh[h].authentic)
            => (wh[h].pc = "done" /\ wh[h].resp = "401"))
    /\ [][\A h \in WebhookProcs :
            (wh[h].pc = "save" /\ wh'[h].pc = "done" /\ ~wh[h].authentic)
            => db' = db]_vars

\* C25: once the txId of a record holds a value, no step changes it to
\* another value.
C25_TxIdSetOnce ==
    [][\A r \in DOMAIN db :
          db[r].txId # Unset => db'[r].txId = db[r].txId]_vars

\* no deposit is observed: the chain never reports success for a
\* transaction, no confirm-receipt is ever received, and no webhook either
NoDepositObserved ==
    /\ \A t \in TxIds : chain[t] # "success"
    /\ \A p \in ConfirmProcs : cr[p].pc = "idle"
    /\ \A h \in WebhookProcs : wh[h].pc = "idle"

\* C26: a record created pending for which no deposit is ever observed
\* eventually has the status failed, whether or not notify-tx is called
\* for it.
C26_PendingEventuallyFails ==
    \A r \in Refs :
       []NoDepositObserved =>
          ((r \in DOMAIN db /\ db[r].status = "pending")
              ~> (r \in DOMAIN db /\ db[r].status = "failed"))

\* the watchers that are running
WatchersRunning ==
    Cardinality({w \in Watchers : wt[w].pc \notin {"idle", "notify_save"}})

\* C27: a notify-tx for an unknown reference is answered 404, changes no
\* record and starts no watcher; for a record that is processing, settling
\* or confirmed it is answered "Already processing", changes no record and
\* starts no watcher; for any other record it goes on to store the tx id
\* it was given and to start exactly one watcher.
C27_NotifyFrame ==
    [][\A w \in Watchers :
         /\ (wt[w].pc = "idle" /\ wt'[w] # wt[w]) =>
               LET r == wt'[w].ref
               IN  IF r \notin DOMAIN db
                   THEN /\ wt'[w].resp = "404" /\ wt'[w].pc = "idle"
                        /\ db' = db /\ WatchersRunning' = WatchersRunning
                   ELSE IF db[r].status \in {"processing", "settling", "confirmed"}
                   THEN /\ wt'[w].resp = "already" /\ wt'[w].pc = "idle"
                        /\ db' = db /\ WatchersRunning' = WatchersRunning
                   ELSE /\ wt'[w].pc = "notify_save"
                        /\ db' = db /\ WatchersRunning' = WatchersRunning
         /\ (wt[w].pc = "notify_save" /\ wt'[w] # wt[w]) =>
               /\ db'[wt[w].ref].txId = wt[w].txId
               /\ wt'[w].pc = "poll" /\ wt'[w].resp = "received"
               /\ \A v \in Watchers \ {w} : wt'[v] = wt[v]
               /\ WatchersRunning' = WatchersRunning + 1]_vars

\* C28: an amount mismatch neither blocks nor alters the payout. Once
\* confirm-receipt has run on a pending record, whatever tokenAmount was
\* reported, initiateLencoTransfer was called with the record's ngnAmount and
\* every body posted to the provider carries that amount.
C28_MismatchKeepsPayout ==
    rcpt.done /\ rcpt.status = "pending"
        => /\ rcpt.called = <<rcpt.ngnAmount>>
           /\ \A k \in 1..Len(rcpt.sent) : Number(rcpt.sent[k].amount) = rcpt.ngnAmount

\* a pending record, a report outside the tolerance, the payout posted
C28_Witness ==
    /\ rcpt.done
    /\ rcpt.status = "pending"
    /\ rcpt.mismatch
    /\ rcpt.reported.milli < 1000 * rcpt.tokenAmount
    /\ Len(rcpt.sent) = 1
    /\ Number(rcpt.sent[1].amount) = rcpt.ngnAmount

\* the answers of confirm-receipt the indexer takes for a failure other than
\* a rejected key
FailedAnswers == {"404", "400", "500", "network"}

\* C29: a chain tx whose confirm-receipt call failed, with 404 or with any
\* other error, is not in processedTxIds once the cycle is over, so that a
\* later cycle calls confirm-receipt for it again. Stated for a server that
\* takes the indexer's key.
C29_FailedCallNotProcessed ==
    keyAccepted /\ (\A s \in 1..NumScans : idx[s].pc = "idle")
        => \A t \in WindowIds :
              answers[t] \in FailedAnswers => t \notin processedTxIds

\* C30: after a confirm-receipt call of a poll cycle was answered 401, the
\* scan issues no further confirm-receipt call in that cycle.
C30_StopsAfter401 ==
    [][ \A s \in 1..NumScans :
          idx[s].pc # "calling" /\ idx'[s].pc = "calling" => ~idx[s].refused ]_vars

\* the chain API gave the memo of the transaction (the field is not missing)
MemoGiven == mm.raw # <<>> /\ mm.raw # <<Char("n"), Char("o"), Char("n"), Char("e")>>

\* the memo on chain is a valid reference followed by null bytes only
ReferenceThenNuls == \E n \in 0..3 : mm.bytes = Reference \o Nuls(n)

\* C31: on either path, a transaction whose decoded memo does not start with
\* SSWAP_OFFRAMP_ causes no confirm-receipt call, and a memo that is a valid
\* reference followed by null bytes is matched: confirm-receipt is called
\* with that reference.
C31_MemoMatching ==
    mm.done =>
        /\ ~startsWith(mm.memo, OfframpPrefix) => mm.called = <<>>
        /\ MemoGiven /\ ReferenceThenNuls
               => mm.called = << [ transactionReference |-> Reference ] >>

\* C32: a watcher that has used up its attempts changes the record to failed
\* with the reason of the timeout only if the record is pending at that
\* moment; a record with another status is left as it is, also when the
\* status changed between the watcher's last read and its write.
C32_TimeoutOnlyPending ==
    [][ \A w \in Watchers :
          wt[w].pc \in {"timeout_read", "timeout_save"} /\ wt'[w].pc = "idle"
              => LET r == wt[w].ref
                 IN IF db[r].status = "pending"
                    THEN /\ db'[r].status = "failed"
                         /\ db'[r].meta.failureReason = "Poll timeout"
                    ELSE db'[r] = db[r] ]_vars

FetchEnds == InFlight' < InFlight

\* the delay the claim gives for this many failures in a row
ClaimedDelay(failures) ==
    IF BASE_BACKOFF_MS * (2 ^ (failures - 1)) < MAX_BACKOFF_MS
    THEN BASE_BACKOFF_MS * (2 ^ (failures - 1))
    ELSE MAX_BACKOFF_MS

\* the counter is the number of failed fetches since the last success, a
\* 429 sets the window to the claimed delay from now, a success resets the
\* counter and clears the window
BackoffRule ==
    FetchEnds =>
        /\ consecutiveFailures' = fetchLog'.failed
        /\ fetchLog'.status = 200 /\ fetchLog'.failed = 0
               => consecutiveFailures' = 0 /\ backoffUntil' = 0
        /\ fetchLog'.status = 429 /\ fetchLog'.failed > 0
               => backoffUntil' = now + ClaimedDelay(fetchLog'.failed)

C35_TerminalAbsorbing ==
    [][ LENCO_WEBHOOK_SECRET # "" =>
          \A r \in DOMAIN db :
             db[r].status \in {"confirmed", "failed"}
                 => db'[r].status = db[r].status ]_vars

\* what the chain holds for a transaction id: the first is a transfer to the
\* platform address whose memo is the first reference, every other one a
\* transfer to another address with a memo of its own
ChainTransfer(t) ==
    IF t = SameTx THEN [ recipient |-> "platform", memo |-> SameTx ]
    ELSE [ recipient |-> "other", memo |-> 0 ]

\* C36: a payout is initiated for a reference only after a successful chain
\* transaction to the platform address with that reference as its memo.
\* Stated for the notify-tx path: whenever a watcher calls
\* initiateLencoTransfer, the transaction it watched is successful, went to
\* the platform address and carries the watcher's reference.
C36_PayoutOnlyForDeposit ==
    [][ \A w \in Watchers :
          wt[w].pc = "transfer" /\ wt'[w].pc = "save_result"
              => /\ chain[wt[w].txId] = "success"
                 /\ ChainTransfer(wt[w].txId).recipient = "platform"
                 /\ ChainTransfer(wt[w].txId).memo = wt[w].ref ]_vars

\* C37: one chain transaction settles at most one offramp. When every
\* notify-tx names the same chain transaction, at most one reference ever
\* has initiateLencoTransfer called for it.
C37_OneTxOnePayout ==
    Cardinality({ r \in SameTxRefs : calls[r] > 0 }) <= 1

\* C38: for an onramp record, sendTokens is called at most once, whatever
\* Monnify webhooks are delivered for its payment reference and however
\* their handlers interleave.
C38_TokensSentOnce == sends <= 1

\* C39: checkLiquidity never approves an order from a cached balance older
\* than BALANCE_CACHE_TTL_MS; after a failed fetch the balance counts as
\* unknown and the order is rejected.
C39_NoApprovalFromStaleBalance ==
    lastCheck.done /\ lastCheck.ok => ~lastCheck.stale

\* C40: the price cache holds only what a successful upstream fetch brought:
\* it is filled only once a fetch has succeeded, and an answer marked
\* fromCache is never the emergency rates.
C40_CacheOnlyFromUpstream ==
    /\ HasBoth(cache) => fetchLog.succeeded
    /\ last.fromCache => fetchLog.succeeded

====
